---- MODULE Spec2Model ----
(***************************************************************************)
(* Mailbox ingestion and subscription extraction pipeline of               *)
(* open-personal-finance: the per-account Sync Runner (syncGmailAccount),  *)
(* the Process Runner (startEmailProcessing / processEmailBatch), the      *)
(* HTTP triggers and the boot-time resumeInterruptedTasks, over one        *)
(* account row, its emails table and the remote mailbox.                   *)
(*                                                                         *)
(* Every await of the source is a suspension point: a runner's step is the *)
(* code from one database or HTTP call up to the next one.  Page tokens    *)
(* are offsets into the remote listing, 0 standing for the absent token    *)
(* ("" / null / undefined, all falsy in the source).  Money is in micro-   *)
(* dollars.  Dates are day numbers.                                        *)
(***************************************************************************)
EXTENDS Integers, Sequences, FiniteSets, TLC

\* ---------------------------------------------------------------- bounds
MaxMsgs == 4
InitialMsgs == 3
MaxDay == 1
MaxCrashes == 1
MaxFailures == 3
MaxSyncStarts == 2
MaxProcStarts == 1
FetchPageSize == 2
CountPageSize == 3
BatchSize == 2
MaxEvents == 2
MaxSyncEvents == 3
MaxProcEvents == 3
MaxSubsEvents == 2

\* --------------------------------------------------- program constants
MonthsBack == 12
MaxAnalysisRetries == 3

SyncRunners == {"s1", "s2"}
ProcRunners == {"p1", "p2"}

NoDate == -1
NoInt == -9
NoStr == "undefined"

\* ------------------------------------------------------------ variables
VARIABLES
  acct,        \* the gmail_accounts row
  emails,      \* the emails table: a set of rows
  subs,        \* the subscriptions table: a set of rows
  remote,      \* message ids the provider lists under the filter, in order
  today,       \* current day
  sr,          \* Sync Runner fibers: position and locals
  pr,          \* Process Runner fibers: position and locals
  pendingProc, \* startEmailProcessing calls issued by sync completion
  aiEnabled,   \* AI_ENABLED of this deployment
  crashes, failures, syncStarts, procStarts, \* environment events so far, by kind
  budget,      \* environment events still allowed
  lmCalls,     \* answers the LM has given (and billed), per message
  escaped,     \* errors that reached the caller of a background run
  broker,      \* Token Broker: clock, provider and getAccessToken calls
  claude       \* callClaudeAPIWithRetries: position and locals of the call

vars == <<acct, emails, subs, remote, today, sr, pr, pendingProc, aiEnabled,
          crashes, failures, syncStarts, procStarts, budget, lmCalls, escaped, broker, claude>>

Min(a, b) == IF a < b THEN a ELSE b

Range(s) == {s[i] : i \in 1..Len(s)}

\* ------------------------------------------------------ remote mailbox
\* One page of the messages.list endpoint.
ListPage(token, size) ==
  LET last == Min(token + size, Len(remote))
  IN [emails |-> SubSeq(remote, token + 1, last),
      nextPageToken |-> IF last < Len(remote) THEN last ELSE 0]

\* -------------------------------------------------------- query builder
buildGmailSyncQuery(syncType, lastSyncDate) ==
  IF syncType = "initial"
  THEN [type |-> "initial", after |-> today, monthsBack |-> MonthsBack]
  ELSE [type |-> "incremental", after |-> lastSyncDate, monthsBack |-> 0]

\* Fingerprint of a query: equal queries and only equal queries (up to
\* SHA-256 collisions) give equal fingerprints.
calculateQueryHash(q) == <<q.type, q.after, q.monthsBack>>

NoHash == <<>>

\* ------------------------------------------------------- account store
getResumeStatus(a) ==
  [canResume |-> a.sync_status = "syncing" /\ a.last_page_token # 0,
   resumeToken |-> a.last_page_token,
   processedCount |-> a.processed_emails,
   totalCount |-> a.total_emails,
   queryHash |-> a.query_hash]

clearResumeData(a) ==
  [a EXCEPT !.last_page_token = 0,
            !.last_processed_message_id = 0,
            !.sync_started_at = NoDate,
            !.query_hash = NoHash]

updateGmailAccountSyncStatus(a, status, total, processed, token, lastMsg, startedAt, hash, initialDone, lastError) ==
  [a EXCEPT !.sync_status = status,
            !.last_sync = today,
            !.total_emails = IF total = NoInt THEN @ ELSE total,
            !.processed_emails = IF processed = NoInt THEN @ ELSE processed,
            !.last_page_token = IF token = NoInt THEN @ ELSE token,
            !.last_processed_message_id = IF lastMsg = NoInt THEN @ ELSE lastMsg,
            !.sync_started_at = IF startedAt = NoInt THEN @ ELSE startedAt,
            !.query_hash = IF hash = <<NoStr>> THEN @ ELSE hash,
            !.is_initial_sync_complete = IF initialDone = NoStr THEN @
                                         ELSE initialDone = "true",
            !.last_error = IF lastError = NoStr THEN @ ELSE lastError]

\* Mutant: the cursor is advanced past the page that was just stored.
saveProgressSkipsAhead(a, processedCount, pageToken, lastMessageId) ==
  [a EXCEPT !.processed_emails = processedCount,
            !.last_page_token = IF pageToken = 0 THEN 0 ELSE pageToken + 1,
            !.last_processed_message_id = lastMessageId]

saveProgress(a, processedCount, pageToken, lastMessageId) ==
  [a EXCEPT !.processed_emails = processedCount,
            !.last_page_token = pageToken,
            !.last_processed_message_id = lastMessageId]

\* -------------------------------------------------------- emails table
NewRow(msg) ==
  [id |-> Cardinality(emails) + 1, msg |-> msg, processed |-> FALSE,
   is_subscription |-> FALSE, subscription_confidence |-> 0,
   ai_provider |-> "none", ai_reasoning |-> "", analysis_attempts |-> 0]

\* Mutant: a plain INSERT, without the ON CONFLICT clause and without the
\* unique constraint behind it.
saveEmailAlwaysInserts(rows, msg) == rows \cup {NewRow(msg)}

\* Mutant: the statement updates an existing row and inserts none.
saveEmailUpdateOnly(rows, msg) == rows

\* Mutant: the conflict clause also resets the analysis columns.
saveEmailResetsAnalysis(rows, msg) ==
  IF \E r \in rows : r.msg = msg
  THEN {IF r.msg = msg THEN [NewRow(msg) EXCEPT !.id = r.id] ELSE r : r \in rows}
  ELSE rows \cup {NewRow(msg)}

\* INSERT ... ON CONFLICT (gmail_account_id, gmail_message_id) DO UPDATE:
\* the overwritten columns (headers, bodies, received_at) are functions of
\* the remote message, so an existing row is left as it is.
saveEmail(rows, msg) ==
  IF \E r \in rows : r.msg = msg THEN rows ELSE rows \cup {NewRow(msg)}

Unprocessed == {r \in emails : ~r.processed}

\* --------------------------------------------------------------- fibers
\* ------------------------------------------------------------ tokens
\* Access tokens are numbered in the order the provider issues them; time
\* of the Token Broker is counted in minutes.
MaxNow == 5
MaxTokenCalls == 3
InitialExpiry == 7
ExpiryBuffer == 5
ExpiresInValues == {4, 6}
Salts == {1, 2}
TokenCallers == {"g1", "g2"}

\* AES-GCM under a fresh random salt and iv.
encrypt(text, salt) == <<salt, text>>

decrypt(encryptedText) == encryptedText[2]

\* One getAccessToken call: position, locals and what it returned.
GaIdle ==
  [pc |-> "idle", account |-> [access_token |-> 0, token_expiry |-> 0],
   tokens |-> [access_token |-> 0, expires_in |-> 0], expiresAt |-> 0,
   returned |-> 0, contacted |-> FALSE]

BrokerIdle ==
  [now |-> 0, issued |-> 1, refused |-> 0, calls |-> 0,
   call |-> [g \in TokenCallers |-> GaIdle]]

\* ---------------------------------------------------------- LM requests
\* One callClaudeAPIWithRetries call at a time; backoff delays in seconds.
MaxClaudeRequests == 2
MaxRetries == 3
Delays == <<10, 30, 90>>

\* What callClaudeAPI throws: "Claude API error (<status>): <body>" for an
\* answer that is not ok, "Claude API request timeout" after 15 seconds.
ApiErrors == {"http401", "http429", "http500", "http503", "http400", "timeout"}

\* The substrings the catch block looks for that error.message contains.
ApiMessageIncludes(e) ==
  CASE e = "http401" -> {"401"}
    [] e = "http429" -> {"429"}
    [] e = "http500" -> {"500"}
    [] e = "http503" -> {"503"}
    [] OTHER -> {}

\* attempt and lastError are the locals of the call; errors and slept record
\* what its attempts threw and the delays it slept.
ClaudeIdle ==
  [pc |-> "idle", attempt |-> 0, lastError |-> NoStr, errors |-> <<>>,
   slept |-> <<>>, requests |-> 0]

InitAcct ==
  [sync_status |-> "pending", processing_status |-> "idle",
   total_emails |-> 0, processed_emails |-> 0,
   emails_to_analyze |-> 0, emails_analyzed |-> 0, subscriptions_found |-> 0,
   ai_cost_total |-> 0, is_initial_sync_complete |-> FALSE,
   last_sync |-> NoDate, last_page_token |-> 0,
   last_processed_message_id |-> 0, query_hash |-> NoHash,
   sync_started_at |-> NoDate, processing_started_at |-> NoDate,
   last_error |-> "",
   access_token_encrypted |-> encrypt(1, 1), token_expiry |-> InitialExpiry]

SrIdle ==
  [pc |-> "idle", resume |-> getResumeStatus(InitAcct), syncType |-> "initial",
   hash |-> NoHash, isResuming |-> FALSE,
   totalCount |-> 0, countToken |-> 0, pageToken |-> 0, processedCount |-> 0,
   skippedCount |-> 0, page |-> <<>>, next |-> 0, idx |-> 0, lastId |-> 0,
   err |-> NoStr, yielded |-> {}, skipped |-> {}, busyAtStart |-> FALSE,
   site |-> "none"]

PrIdle ==
  [pc |-> "idle", sawStatus |-> "idle", canResume |-> FALSE,
   toAnalyzeCount |-> 0, analyzedCount |-> 0, batch |-> <<>>, idx |-> 0,
   processed |-> 0, subscriptionsFound |-> 0, hasMore |-> TRUE,
   costAtInit |-> 0, foundBase |-> 0, inserted |-> 0,
   result |-> [isSubscription |-> FALSE, confidence |-> 0,
               provider |-> "none", reasoning |-> "", cost |-> 0,
               serviceName |-> "", amount |-> 0]]

Init ==
  /\ acct = InitAcct
  /\ emails = {}
  /\ subs = {}
  /\ remote = [i \in 1..InitialMsgs |-> i]
  /\ today = 0
  /\ sr = [s \in SyncRunners |-> SrIdle]
  /\ pr = [p \in ProcRunners |-> PrIdle]
  /\ pendingProc = 0
  /\ aiEnabled \in BOOLEAN
  /\ crashes = 0 /\ failures = 0 /\ syncStarts = 0 /\ procStarts = 0
  /\ budget = MaxEvents
  /\ lmCalls = [msg \in 1..MaxMsgs |-> 0]
  /\ escaped = 0
  /\ broker = BrokerIdle
  /\ claude = ClaudeIdle

\* ======================================================== Sync Runner
SrLive(s) == sr[s].pc # "idle"

\* Errors a remote listing call (fetchEmails) can throw: the provider
\* answers the listing with an HTTP error status, message
\* "Failed to fetch emails: <json of the answer>", or getAccessToken cannot
\* refresh the bearer, message "Failed to refresh access token".
ListErrors == {"http401", "http429", "http500", "refresh"}

\* The substrings the catch block looks for that error.message contains.
MessageIncludes(e) ==
  CASE e = "http401" -> {"401", "fetch"}
    [] e = "http429" -> {"429", "fetch"}
    [] e = "http500" -> {"fetch"}
    [] OTHER -> {}

\* Mutant: the catch block looks for the network words first.
ErrorClassNetworkFirst(e) ==
  IF \/ "fetch" \in MessageIncludes(e)
     \/ "network" \in MessageIncludes(e)
     \/ "timeout" \in MessageIncludes(e)
  THEN "network"
  ELSE IF "401" \in MessageIncludes(e) \/ "403" \in MessageIncludes(e)
  THEN "auth"
  ELSE IF "429" \in MessageIncludes(e) \/ "quota" \in MessageIncludes(e)
  THEN "rate"
  ELSE "unknown"

\* The catch block's classification by substrings of error.message.
ErrorClass(e) ==
  IF "401" \in MessageIncludes(e) \/ "403" \in MessageIncludes(e) THEN "auth"
  ELSE IF "429" \in MessageIncludes(e) \/ "quota" \in MessageIncludes(e)
  THEN "rate"
  ELSE IF \/ "fetch" \in MessageIncludes(e)
          \/ "network" \in MessageIncludes(e)
          \/ "timeout" \in MessageIncludes(e)
  THEN "network"
  ELSE "unknown"

ErrorMessage(class) ==
  CASE class = "auth" -> "Gmail access expired. Please reconnect your account."
    [] class = "rate" -> "Gmail rate limit reached. Please retry in 1 hour."
    [] class = "network" -> "Network error occurred. Click 'Sync Now' to retry."
    [] OTHER -> "Unexpected error occurred. Please retry or contact support."

\* Mutant: the boot sequence awaits the runs it restarts without a handler.
CallSiteCatchesExceptBoot(site) == site \in {"route"}

\* Every call of syncGmailAccount is made without await and with
\* .catch(...) attached, in the route and in the boot sequence.
CallSiteCatches(site) == site \in {"route", "boot"}

\* Entry of the catch block of syncGmailAccount.
Caught(s, e) ==
  [sr[s] EXCEPT !.err = e,
                !.pc = IF ErrorClass(e) = "auth" THEN "s_err_clear"
                       ELSE "s_err_write"]

FreeSync(s) ==
  /\ ~SrLive(s)
  /\ s = "s2" => SrLive("s1")

\* POST /accounts/:id/sync: starts syncGmailAccount in the background.
StartSync(s) ==
  /\ FreeSync(s)
  /\ syncStarts < MaxSyncStarts
  /\ syncStarts' = syncStarts + 1
  /\ sr' = [sr EXCEPT ![s] =
             [SrIdle EXCEPT !.pc = "s_resume", !.site = "route",
                            !.busyAtStart = acct.sync_status = "syncing"
                                            /\ \E t \in SyncRunners : SrLive(t)]]
  /\ budget > 0
  /\ budget' = budget - 1
  /\ UNCHANGED <<acct, emails, subs, remote, today, pr, pendingProc,
                 aiEnabled, crashes, failures, procStarts, lmCalls, escaped, broker, claude>>

\* Phase 0: const resumeStatus = await getResumeStatus(accountId)
SyncReadResume(s) ==
  /\ sr[s].pc = "s_resume"
  /\ sr' = [sr EXCEPT ![s].resume = getResumeStatus(acct),
                      ![s].pc = "s_account"]
  /\ UNCHANGED <<acct, emails, subs, remote, today, pr, pendingProc,
                 aiEnabled, crashes, failures, syncStarts, procStarts, budget,
                 lmCalls, escaped, broker, claude>>

\* Phase 0: read the account, build the query and its hash, decide resume.
SyncDecide(s) ==
  /\ sr[s].pc = "s_account"
  /\ LET syncType == IF acct.is_initial_sync_complete THEN "incremental"
                     ELSE "initial"
         hash == calculateQueryHash(buildGmailSyncQuery(syncType, acct.last_sync))
         rs == sr[s].resume
     IN sr' = [sr EXCEPT ![s] =
          IF syncType = "incremental" /\ acct.last_sync = NoDate
          THEN Caught(s, "lastSyncDate")
          ELSE IF rs.canResume /\ rs.queryHash # hash
          THEN [@ EXCEPT !.syncType = syncType, !.hash = hash,
                         !.pc = "s_clear"]
          ELSE IF rs.canResume
          THEN [@ EXCEPT !.syncType = syncType, !.hash = hash,
                         !.isResuming = TRUE,
                         !.pageToken = rs.resumeToken,
                         !.processedCount = rs.processedCount,
                         !.totalCount = rs.totalCount,
                         !.pc = "s_fetch"]
          ELSE [@ EXCEPT !.syncType = syncType, !.hash = hash,
                         !.pc = "s_init"]]
  /\ UNCHANGED <<acct, emails, subs, remote, today, pr, pendingProc,
                 aiEnabled, crashes, failures, syncStarts, procStarts, budget,
                 lmCalls, escaped, broker, claude>>

\* Query hash mismatch: await clearResumeData(accountId)
SyncClearMismatch(s) ==
  /\ sr[s].pc = "s_clear"
  /\ acct' = clearResumeData(acct)
  /\ sr' = [sr EXCEPT ![s].pc = "s_init"]
  /\ UNCHANGED <<emails, subs, remote, today, pr, pendingProc,
                 aiEnabled, crashes, failures, syncStarts, procStarts, budget,
                 lmCalls, escaped, broker, claude>>

\* Mutant: the initialising write leaves the counters and the cursor alone.
SyncInitKeepsCounters(s) ==
  /\ sr[s].pc = "s_init"
  /\ acct' = updateGmailAccountSyncStatus(acct, "syncing", NoInt, NoInt, NoInt,
                                          NoInt, today, sr[s].hash, NoStr, NoStr)
  /\ sr' = [sr EXCEPT ![s].pc = "s_count"]
  /\ UNCHANGED <<emails, subs, remote, today, pr, pendingProc,
                 aiEnabled, crashes, failures, syncStarts, procStarts, budget,
                 lmCalls, escaped, broker, claude>>

\* Initialize sync if not resuming.
SyncInit(s) ==
  /\ sr[s].pc = "s_init"
  /\ acct' = updateGmailAccountSyncStatus(acct, "syncing", NoInt, 0, 0, 0,
                                          today, sr[s].hash, NoStr, NoStr)
  /\ sr' = [sr EXCEPT ![s].pc = "s_count"]
  /\ UNCHANGED <<emails, subs, remote, today, pr, pendingProc,
                 aiEnabled, crashes, failures, syncStarts, procStarts, budget,
                 lmCalls, escaped, broker, claude>>

\* Phase 1: one iteration of the counting do-while.
SyncCountPage(s) ==
  /\ sr[s].pc = "s_count"
  /\ LET p == ListPage(sr[s].countToken, CountPageSize)
     IN sr' = [sr EXCEPT ![s].totalCount = @ + Len(p.emails),
                         ![s].countToken = p.nextPageToken,
                         ![s].pc = IF p.nextPageToken # 0 THEN "s_count"
                                   ELSE "s_counted"]
  /\ UNCHANGED <<acct, emails, subs, remote, today, pr, pendingProc,
                 aiEnabled, crashes, failures, syncStarts, procStarts, budget,
                 lmCalls, escaped, broker, claude>>

\* Phase 1: updateGmailAccountSyncStatus(accountId, "syncing", totalCount, 0)
SyncCounted(s) ==
  /\ sr[s].pc = "s_counted"
  /\ acct' = updateGmailAccountSyncStatus(acct, "syncing", sr[s].totalCount, 0,
                                          NoInt, NoInt, NoInt, <<NoStr>>,
                                          NoStr, NoStr)
  /\ sr' = [sr EXCEPT ![s].pc = "s_fetch"]
  /\ UNCHANGED <<emails, subs, remote, today, pr, pendingProc,
                 aiEnabled, crashes, failures, syncStarts, procStarts, budget,
                 lmCalls, escaped, broker, claude>>

\* Phase 2: fetchEmails(accountId, userId, 100, currentPageToken, gmailQuery)
SyncFetchPage(s) ==
  /\ sr[s].pc = "s_fetch"
  /\ LET p == ListPage(sr[s].pageToken, FetchPageSize)
     IN sr' = [sr EXCEPT ![s] =
          IF Len(p.emails) = 0
          THEN [@ EXCEPT !.pc = "s_complete1"]
          ELSE [@ EXCEPT !.page = p.emails, !.next = p.nextPageToken,
                         !.idx = 1, !.lastId = 0,
                         !.yielded = @ \cup Range(p.emails),
                         !.pc = "s_msg"]]
  /\ UNCHANGED <<acct, emails, subs, remote, today, pr, pendingProc,
                 aiEnabled, crashes, failures, syncStarts, procStarts, budget,
                 lmCalls, escaped, broker, claude>>

\* A listing call of either phase throws.
SyncListFails(s) ==
  /\ sr[s].pc \in {"s_count", "s_fetch"}
  /\ failures < MaxFailures
  /\ failures' = failures + 1
  /\ \E e \in ListErrors : sr' = [sr EXCEPT ![s] = Caught(s, e)]
  /\ budget > 0
  /\ budget' = budget - 1
  /\ UNCHANGED <<acct, emails, subs, remote, today, pr, pendingProc,
                 aiEnabled, crashes, syncStarts, procStarts, lmCalls, escaped, broker, claude>>

AfterMessage(r) ==
  [r EXCEPT !.idx = @ + 1,
            !.pc = IF r.idx + 1 > Len(r.page) THEN "s_save" ELSE "s_msg"]

\* Phase 2, loop body: fetchEmailDetails + saveEmail succeed.
SyncSaveMessage(s) ==
  /\ sr[s].pc = "s_msg"
  /\ LET msg == sr[s].page[sr[s].idx]
     IN /\ emails' = saveEmail(emails, msg)
        /\ sr' = [sr EXCEPT ![s] =
              AfterMessage([@ EXCEPT !.lastId = msg,
                                     !.processedCount = @ + 1])]
  /\ UNCHANGED <<acct, subs, remote, today, pr, pendingProc,
                 aiEnabled, crashes, failures, syncStarts, procStarts, budget,
                 lmCalls, escaped, broker, claude>>

\* Mutant: the failure of a message is not caught in the loop.
SyncSkipMessageEndsRun(s) ==
  /\ sr[s].pc = "s_msg"
  /\ failures < MaxFailures
  /\ failures' = failures + 1
  /\ sr' = [sr EXCEPT ![s] = Caught(s, "http500")]
  /\ budget > 0
  /\ budget' = budget - 1
  /\ UNCHANGED <<acct, emails, subs, remote, today, pr, pendingProc,
                 aiEnabled, crashes, syncStarts, procStarts, lmCalls, escaped, broker, claude>>

\* Phase 2, loop body: the per-message try block throws; the message is
\* skipped.
SyncSkipMessage(s) ==
  /\ sr[s].pc = "s_msg"
  /\ failures < MaxFailures
  /\ failures' = failures + 1
  /\ LET msg == sr[s].page[sr[s].idx]
     IN sr' = [sr EXCEPT ![s] =
              AfterMessage([@ EXCEPT !.skippedCount = @ + 1,
                                     !.skipped = @ \cup {msg}])]
  /\ budget > 0
  /\ budget' = budget - 1
  /\ UNCHANGED <<acct, emails, subs, remote, today, pr, pendingProc,
                 aiEnabled, crashes, syncStarts, procStarts, lmCalls, escaped, broker, claude>>

AfterSave(r) ==
  IF r.next = 0 THEN [r EXCEPT !.pc = "s_complete1"]
  ELSE [r EXCEPT !.pageToken = r.next, !.pc = "s_fetch"]

\* saveProgressTransaction commits (first try or retry).
SyncSaveProgress(s) ==
  /\ sr[s].pc = "s_save"
  /\ acct' = saveProgress(acct, sr[s].processedCount, sr[s].next, sr[s].lastId)
  /\ sr' = [sr EXCEPT ![s] = AfterSave(@)]
  /\ UNCHANGED <<emails, subs, remote, today, pr, pendingProc,
                 aiEnabled, crashes, failures, syncStarts, procStarts, budget,
                 lmCalls, escaped, broker, claude>>

\* saveProgressTransaction fails twice: logged, not thrown.
SyncSaveProgressFails(s) ==
  /\ sr[s].pc = "s_save"
  /\ failures < MaxFailures
  /\ failures' = failures + 1
  /\ sr' = [sr EXCEPT ![s] = AfterSave(@)]
  /\ budget > 0
  /\ budget' = budget - 1
  /\ UNCHANGED <<acct, emails, subs, remote, today, pr, pendingProc,
                 aiEnabled, crashes, syncStarts, procStarts, lmCalls, escaped, broker, claude>>

\* saveProgressTransaction: the database is out of reach, so that the
\* ROLLBACK in one of its catch blocks throws as well; that error leaves
\* saveProgressTransaction and enters the catch block of syncGmailAccount.
SyncSaveProgressRollbackFails(s) ==
  /\ sr[s].pc = "s_save"
  /\ failures < MaxFailures
  /\ failures' = failures + 1
  /\ sr' = [sr EXCEPT ![s] = Caught(s, "database")]
  /\ budget > 0
  /\ budget' = budget - 1
  /\ UNCHANGED <<acct, emails, subs, remote, today, pr, pendingProc,
                 aiEnabled, crashes, syncStarts, procStarts, lmCalls, escaped, broker, claude>>

\* Phase 3: await clearResumeData(accountId)
SyncCompleteClear(s) ==
  /\ sr[s].pc = "s_complete1"
  /\ acct' = clearResumeData(acct)
  /\ sr' = [sr EXCEPT ![s].pc = "s_complete2"]
  /\ UNCHANGED <<emails, subs, remote, today, pr, pendingProc,
                 aiEnabled, crashes, failures, syncStarts, procStarts, budget,
                 lmCalls, escaped, broker, claude>>

\* Mutant: the completion call passes the comparison itself, false for an
\* incremental run.
InitialDoneArgBoolean(syncType) ==
  IF syncType = "initial" THEN "true" ELSE "false"

\* syncType === "initial" ? true : undefined
InitialDoneArg(syncType) ==
  IF syncType = "initial" THEN "true" ELSE NoStr

\* Phase 3: status completed, then startEmailProcessing without await.
SyncComplete(s) ==
  /\ sr[s].pc = "s_complete2"
  /\ acct' = updateGmailAccountSyncStatus(acct, "completed", sr[s].totalCount,
                 sr[s].processedCount, 0, 0, NoDate, NoHash,
                 InitialDoneArg(sr[s].syncType), "")
  /\ pendingProc' = pendingProc + 1
  /\ sr' = [sr EXCEPT ![s] = SrIdle]
  /\ UNCHANGED <<emails, subs, remote, today, pr,
                 aiEnabled, crashes, failures, syncStarts, procStarts, budget,
                 lmCalls, escaped, broker, claude>>

\* Phase 4, auth error: await clearResumeData(accountId)
SyncErrorClear(s) ==
  /\ sr[s].pc = "s_err_clear"
  /\ acct' = clearResumeData(acct)
  /\ sr' = [sr EXCEPT ![s].pc = "s_err_write"]
  /\ UNCHANGED <<emails, subs, remote, today, pr, pendingProc,
                 aiEnabled, crashes, failures, syncStarts, procStarts, budget,
                 lmCalls, escaped, broker, claude>>

\* Mutant: a failed run starts the processing as well.
SyncErrorWriteChains(s) ==
  /\ sr[s].pc = "s_err_write"
  /\ acct' = updateGmailAccountSyncStatus(acct, "error", NoInt, NoInt, NoInt,
                 NoInt, NoInt, <<NoStr>>, NoStr,
                 ErrorMessage(ErrorClass(sr[s].err)))
  /\ pendingProc' = pendingProc + 1
  /\ escaped' = IF CallSiteCatches(sr[s].site) THEN escaped ELSE escaped + 1
  /\ sr' = [sr EXCEPT ![s] = SrIdle]
  /\ UNCHANGED <<emails, subs, remote, today, pr,
                 aiEnabled, crashes, failures, syncStarts, procStarts, budget,
                 lmCalls, broker, claude>>

\* Phase 4: status error with the user-visible message; rethrow.
SyncErrorWrite(s) ==
  /\ sr[s].pc = "s_err_write"
  /\ acct' = updateGmailAccountSyncStatus(acct, "error", NoInt, NoInt, NoInt,
                 NoInt, NoInt, <<NoStr>>, NoStr,
                 ErrorMessage(ErrorClass(sr[s].err)))
  /\ escaped' = IF CallSiteCatches(sr[s].site) THEN escaped ELSE escaped + 1
  /\ sr' = [sr EXCEPT ![s] = SrIdle]
  /\ UNCHANGED <<emails, subs, remote, today, pr, pendingProc,
                 aiEnabled, crashes, failures, syncStarts, procStarts, budget,
                 lmCalls, broker, claude>>

\* ===================================================== message contents
\* Contents of the remote messages, fixed per message id.  Message 1 is a
\* newsletter (keyword confidence below the threshold); the others are
\* receipts of the same service and amount.
\* What the keyword analyser finds in a message: the number of subscription
\* keywords and of billing keywords in its text, the first service pattern
\* that matches ("" when none does) and the first amount in its body, in
\* cents (0 when none is found).  Message 3 names its amount in words.
Content(msg) ==
  CASE msg = 1 -> [subscriptionKeywords |-> 1, billingKeywords |-> 0,
                   service |-> "", amount |-> 0]
    [] msg = 3 -> [subscriptionKeywords |-> 2, billingKeywords |-> 0,
                   service |-> "Netflix", amount |-> 0]
    [] OTHER -> [subscriptionKeywords |-> 1, billingKeywords |-> 1,
                 service |-> "Netflix", amount |-> 1599]

\* KEYWORD_CONFIDENCE_THRESHOLD, in hundredths.
KeywordConfidenceThreshold == 30

\* analyzeEmail: confidences are counted in hundredths (the contents above
\* keep clear of the thresholds, where the rounding of the sums matters).
KeywordResult(msg) ==
  LET c == Content(msg)
      confidence == Min(15 * c.subscriptionKeywords + 10 * c.billingKeywords
                          + (IF c.service # "" THEN 30 ELSE 0)
                          + (IF c.amount # 0 THEN 20 ELSE 0), 100)
  IN [isSubscription |-> confidence > 40, confidence |-> confidence,
      serviceName |-> c.service, amount |-> c.amount]

KeywordBelowThreshold(msg) ==
  KeywordResult(msg).confidence < KeywordConfidenceThreshold

\* response.usage of the LM's answer about a message.
TokensUsed(msg) ==
  CASE msg = 2 -> [input |-> 1000, output |-> 100]
    [] msg = 3 -> [input |-> 900, output |-> 106]
    [] OTHER -> [input |-> 1002, output |-> 100]

ClaudeResult(msg) ==
  [is_subscription |-> TRUE, confidence |-> 95, service_name |-> "Netflix",
   amount |-> 1599, reasoning |-> "claude", tokens_used |-> TokensUsed(msg)]

\* ------------------------------------------- double-precision numbers
\* JavaScript numbers are IEEE 754 doubles.  A natural number of any size is
\* a sequence of bits, least significant first; a non-negative double is
\* [m, e], standing for m * 2^e, with m of exactly MantissaBits bits (the
\* highest one set), or DblZero.
MantissaBits == 53

RECURSIVE BitsToNat(_)
BitsToNat(b) ==
  IF b = <<>> THEN 0 ELSE b[1] + 2 * BitsToNat(SubSeq(b, 2, Len(b)))

Zeros(k) == [j \in 1..k |-> 0]

\* b without its high-order zeros.
Trim(b) ==
  LET ones == {j \in 1..Len(b) : b[j] = 1}
  IN IF ones = {} THEN <<>>
     ELSE SubSeq(b, 1, CHOOSE j \in ones : \A k \in ones : k <= j)

\* The bits of a natural number below 2^31.
NatToBits(n) == Trim([j \in 1..31 |-> (n \div 2^(j - 1)) % 2])

\* Long arithmetic works on limbs of LimbBits bits, least significant first.
LimbBits == 16
LimbBase == 2^LimbBits

ToLimbs(b) ==
  [j \in 1..((Len(b) + LimbBits - 1) \div LimbBits) |->
     BitsToNat(SubSeq(b, LimbBits * (j - 1) + 1,
                      IF LimbBits * j < Len(b) THEN LimbBits * j ELSE Len(b)))]

FromLimbs(l) ==
  Trim([n \in 1..(LimbBits * Len(l)) |->
          (l[(n - 1) \div LimbBits + 1] \div 2^((n - 1) % LimbBits)) % 2])

RECURSIVE MulSmallFrom(_, _, _, _)
MulSmallFrom(l, c, i, carry) ==
  IF i > Len(l) THEN <<carry>>
  ELSE LET t == l[i] * c + carry
       IN <<t % LimbBase>> \o MulSmallFrom(l, c, i + 1, t \div LimbBase)

\* b * c for a natural c <= 1000.
MulSmall(b, c) == FromLimbs(MulSmallFrom(ToLimbs(b), c, 1, 0))

RECURSIVE DivSmallFrom(_, _, _, _)
DivSmallFrom(l, c, i, rem) ==
  IF i = 0 THEN [q |-> <<>>, r |-> rem]
  ELSE LET cur == LimbBase * rem + l[i]
           lower == DivSmallFrom(l, c, i - 1, cur % c)
       IN [q |-> Append(lower.q, cur \div c), r |-> lower.r]

\* Quotient and remainder of b by a natural c <= 1000.
DivSmall(b, c) ==
  LET l == ToLimbs(b)
      d == DivSmallFrom(l, c, Len(l), 0)
  IN [q |-> FromLimbs(d.q), r |-> d.r]

RECURSIVE AddFrom(_, _, _, _)
AddFrom(a, b, i, carry) ==
  IF i > Len(a) /\ i > Len(b) THEN <<carry>>
  ELSE LET t == (IF i <= Len(a) THEN a[i] ELSE 0)
                + (IF i <= Len(b) THEN b[i] ELSE 0) + carry
       IN <<t % LimbBase>> \o AddFrom(a, b, i + 1, t \div LimbBase)

AddBits(a, b) == FromLimbs(AddFrom(ToLimbs(a), ToLimbs(b), 1, 0))

DblZero == [m |-> <<>>, e |-> 0]

\* Round to nearest, ties to even: the double nearest to (b + f) * 2^e,
\* where 0 <= f < 1 and sticky says whether f > 0 (then b has more than
\* MantissaBits + 1 bits).
RoundToDouble(b, e, sticky) ==
  IF b = <<>> THEN DblZero
  ELSE IF Len(b) <= MantissaBits
  THEN [m |-> Zeros(MantissaBits - Len(b)) \o b,
        e |-> e - (MantissaBits - Len(b))]
  ELSE LET d == Len(b) - MantissaBits
           kept == SubSeq(b, d + 1, Len(b))
           guard == b[d]
           rest == sticky \/ \E j \in 1..(d - 1) : b[j] = 1
           up == guard = 1 /\ (rest \/ kept[1] = 1)
           r == IF up THEN AddBits(kept, <<1>>) ELSE kept
       IN IF Len(r) > MantissaBits
          THEN [m |-> SubSeq(r, 2, Len(r)), e |-> e + d + 1]
          ELSE [m |-> r, e |-> e + d]

DblFromNat(n) == RoundToDouble(NatToBits(n), 0, FALSE)

\* x * c for a small natural c.
DblMulSmall(x, c) == RoundToDouble(MulSmall(x.m, c), x.e, FALSE)

\* x * 2^k: exact.
DblScale(x, k) == IF x.m = <<>> THEN x ELSE [x EXCEPT !.e = @ + k]

\* x / 1_000_000: the quotient by 1000 * 1000 of the mantissa extended by
\* 24 bits, so that it keeps more than MantissaBits + 1 bits.
DblDivMillion(x) ==
  LET q1 == DivSmall(Zeros(24) \o x.m, 1000)
      q2 == DivSmall(q1.q, 1000)
  IN RoundToDouble(q2.q, x.e - 24, q1.r # 0 \/ q2.r # 0)

\* x * 1_000_000
DblMulMillion(x) ==
  RoundToDouble(MulSmall(MulSmall(x.m, 1000), 1000), x.e, FALSE)

DblAdd(x, y) ==
  IF x.m = <<>> THEN y
  ELSE IF y.m = <<>> THEN x
  ELSE LET e0 == IF x.e < y.e THEN x.e ELSE y.e
       IN RoundToDouble(AddBits(Zeros(x.e - e0) \o x.m, Zeros(y.e - e0) \o y.m),
                        e0, FALSE)

\* Math.round of a non-negative double below 2^31: the nearest integer,
\* halves upwards.
MathRound(x) ==
  IF x.m = <<>> \/ -x.e > MantissaBits THEN 0
  ELSE IF x.e >= 0 THEN BitsToNat(Zeros(x.e) \o x.m)
  ELSE BitsToNat(SubSeq(x.m, 1 - x.e, MantissaBits)) + x.m[-x.e]

\* calculateCost, in micro-dollars (the returned number of dollars is the
\* rounded integer / 1_000_000, which has six decimals).
calculateCost(inputTokens, outputTokens) ==
  LET inputCost == DblScale(DblDivMillion(DblFromNat(inputTokens)), -2)
      outputCost == DblScale(DblMulSmall(DblDivMillion(DblFromNat(outputTokens)), 5), -2)
      totalCost == DblAdd(inputCost, outputCost)
  IN MathRound(DblMulMillion(totalCost))

\* ===================================================== Process Runner
PrLive(p) == pr[p].pc # "idle"

FreeProc(p) ==
  /\ ~PrLive(p)
  /\ p = "p2" => PrLive("p1")

\* Mutant: only an interrupted run is resumable, not a failed one.
getProcessingResumeStatusAnalyzingOnly(a) ==
  [canResume |-> a.processing_status = "analyzing"
                 /\ a.emails_analyzed < a.emails_to_analyze,
   analyzedCount |-> a.emails_analyzed,
   toAnalyzeCount |-> a.emails_to_analyze]

getProcessingResumeStatus(a) ==
  [canResume |-> a.processing_status \in {"analyzing", "error"}
                 /\ a.emails_analyzed < a.emails_to_analyze,
   analyzedCount |-> a.emails_analyzed,
   toAnalyzeCount |-> a.emails_to_analyze]

RowKey(r) == r.msg * 100 + r.id

RECURSIVE NewestFirst(_)
NewestFirst(rows) ==
  IF rows = {} THEN <<>>
  ELSE LET x == CHOOSE x \in rows : \A y \in rows : RowKey(y) <= RowKey(x)
       IN <<x>> \o NewestFirst(rows \ {x})

\* SELECT ... WHERE processed_at IS NULL ORDER BY received_at DESC LIMIT n
SelectBatch(rows, n) ==
  LET all == NewestFirst({r \in rows : ~r.processed})
  IN SubSeq(all, 1, Min(n, Len(all)))

\* Mutant: the statement of the older markEmailAsProcessed of gmailService,
\* which sets neither ai_provider nor ai_reasoning.
markEmailAsProcessedWithoutProvider(rows, id, result) ==
  {IF r.id = id
   THEN [r EXCEPT !.processed = TRUE,
                  !.is_subscription = result.isSubscription,
                  !.subscription_confidence = result.confidence]
   ELSE r : r \in rows}

\* UPDATE emails SET processed_at = CURRENT_TIMESTAMP, ... WHERE id = $6
markEmailAsProcessed(rows, id, result) ==
  {IF r.id = id
   THEN [r EXCEPT !.processed = TRUE,
                  !.is_subscription = result.isSubscription,
                  !.subscription_confidence = result.confidence,
                  !.ai_provider = result.provider,
                  !.ai_reasoning = result.reasoning]
   ELSE r : r \in rows}

\* Mutant: the initialisation statement also resets the cost column.
InitCountersResetsCost(a, toAnalyzeCount) ==
  [a EXCEPT !.processing_status = "analyzing",
            !.emails_to_analyze = toAnalyzeCount,
            !.emails_analyzed = 0,
            !.subscriptions_found = 0,
            !.ai_cost_total = 0,
            !.processing_started_at = today]

\* Counter initialisation of a fresh process run.
InitCounters(a, toAnalyzeCount) ==
  [a EXCEPT !.processing_status = "analyzing",
            !.emails_to_analyze = toAnalyzeCount,
            !.emails_analyzed = 0,
            !.subscriptions_found = 0,
            !.processing_started_at = today]

\* POST /accounts/:id/process: refuses with 400 while analyzing, otherwise
\* starts startEmailProcessing in the background.
StartProcessing(p) ==
  /\ FreeProc(p)
  /\ procStarts < MaxProcStarts
  /\ acct.processing_status # "analyzing"
  /\ procStarts' = procStarts + 1
  /\ pr' = [pr EXCEPT ![p] = [PrIdle EXCEPT !.pc = "p_check"]]
  /\ budget > 0
  /\ budget' = budget - 1
  /\ UNCHANGED <<acct, emails, subs, remote, today, sr, pendingProc,
                 aiEnabled, crashes, failures, syncStarts, lmCalls, escaped, broker, claude>>

\* The startEmailProcessing call made by a completed sync run.
ChainedProcessing(p) ==
  /\ FreeProc(p)
  /\ pendingProc > 0
  /\ pendingProc' = pendingProc - 1
  /\ pr' = [pr EXCEPT ![p] = [PrIdle EXCEPT !.pc = "p_check"]]
  /\ UNCHANGED <<acct, emails, subs, remote, today, sr,
                 aiEnabled, crashes, failures, syncStarts, procStarts, budget,
                 lmCalls, escaped, broker, claude>>

\* Mutant: the reentrancy guard tests the wrong status value.
AlreadyProcessingWrongStatus(currentStatus) == currentStatus = "completed"

\* Step 1: if (currentStatus === "analyzing") return;
AlreadyProcessing(currentStatus) == currentStatus = "analyzing"

\* Step 1: check current processing status.
ProcCheck(p) ==
  /\ pr[p].pc = "p_check"
  /\ pr' = [pr EXCEPT ![p] =
             IF AlreadyProcessing(acct.processing_status)
             THEN [PrIdle EXCEPT !.sawStatus = acct.processing_status]
             ELSE [@ EXCEPT !.sawStatus = acct.processing_status,
                            !.pc = "p_resume"]]
  /\ UNCHANGED <<acct, emails, subs, remote, today, sr, pendingProc,
                 aiEnabled, crashes, failures, syncStarts, procStarts, budget,
                 lmCalls, escaped, broker, claude>>

\* Step 2: getProcessingResumeStatus.
ProcReadResume(p) ==
  /\ pr[p].pc = "p_resume"
  /\ LET rs == getProcessingResumeStatus(acct)
     IN pr' = [pr EXCEPT ![p].canResume = rs.canResume,
                         ![p].toAnalyzeCount = rs.toAnalyzeCount,
                         ![p].analyzedCount = rs.analyzedCount,
                         ![p].pc = IF rs.canResume THEN "p_setanalyzing"
                                   ELSE "p_count"]
  /\ UNCHANGED <<acct, emails, subs, remote, today, sr, pendingProc,
                 aiEnabled, crashes, failures, syncStarts, procStarts, budget,
                 lmCalls, escaped, broker, claude>>

\* Mutant: a run that finds nothing to do reports completed.
ProcCountCompletes(p) ==
  /\ pr[p].pc = "p_count"
  /\ LET n == Cardinality(Unprocessed)
     IN /\ pr' = [pr EXCEPT ![p] =
               IF n = 0 THEN PrIdle
               ELSE [@ EXCEPT !.toAnalyzeCount = n, !.pc = "p_init"]]
        /\ acct' = IF n = 0
                   THEN [acct EXCEPT !.processing_status = "completed",
                                     !.processing_started_at = NoDate]
                   ELSE acct
  /\ UNCHANGED <<emails, subs, remote, today, sr, pendingProc,
                 aiEnabled, crashes, failures, syncStarts, procStarts, budget,
                 lmCalls, escaped, broker, claude>>

\* Step 3: count unprocessed emails; none ends the run.
ProcCount(p) ==
  /\ pr[p].pc = "p_count"
  /\ LET n == Cardinality(Unprocessed)
     IN pr' = [pr EXCEPT ![p] =
             IF n = 0 THEN PrIdle
             ELSE [@ EXCEPT !.toAnalyzeCount = n, !.pc = "p_init"]]
  /\ UNCHANGED <<acct, emails, subs, remote, today, sr, pendingProc,
                 aiEnabled, crashes, failures, syncStarts, procStarts, budget,
                 lmCalls, escaped, broker, claude>>

\* Step 3: initialize counters.
ProcInit(p) ==
  /\ pr[p].pc = "p_init"
  /\ acct' = InitCounters(acct, pr[p].toAnalyzeCount)
  /\ pr' = [pr EXCEPT ![p].analyzedCount = 0, ![p].pc = "p_batch",
                      ![p].costAtInit = acct.ai_cost_total,
                      ![p].foundBase = 0]
  /\ UNCHANGED <<emails, subs, remote, today, sr, pendingProc,
                 aiEnabled, crashes, failures, syncStarts, procStarts, budget,
                 lmCalls, escaped, broker, claude>>

\* Step 3, resume: just update status to analyzing.
ProcSetAnalyzing(p) ==
  /\ pr[p].pc = "p_setanalyzing"
  /\ acct' = [acct EXCEPT !.processing_status = "analyzing"]
  /\ pr' = [pr EXCEPT ![p].pc = "p_batch",
                      ![p].foundBase = acct.subscriptions_found]
  /\ UNCHANGED <<emails, subs, remote, today, sr, pendingProc,
                 aiEnabled, crashes, failures, syncStarts, procStarts, budget,
                 lmCalls, escaped, broker, claude>>

\* processEmailBatch step 1: fetch batch (newest first).
ProcSelectBatch(p) ==
  /\ pr[p].pc = "p_batch"
  /\ LET b == SelectBatch(emails, BatchSize)
     IN pr' = [pr EXCEPT ![p] =
          IF Len(b) = 0
          THEN [@ EXCEPT !.processed = 0, !.subscriptionsFound = 0,
                         !.hasMore = FALSE, !.pc = "p_progress"]
          ELSE [@ EXCEPT !.batch = b, !.idx = 1, !.processed = 0,
                         !.subscriptionsFound = 0, !.pc = "p_row"]]
  /\ UNCHANGED <<acct, emails, subs, remote, today, sr, pendingProc,
                 aiEnabled, crashes, failures, syncStarts, procStarts, budget,
                 lmCalls, escaped, broker, claude>>

\* The batch query throws: the catch block of startEmailProcessing.
ProcBatchFails(p) ==
  /\ pr[p].pc = "p_batch"
  /\ failures < MaxFailures
  /\ failures' = failures + 1
  /\ pr' = [pr EXCEPT ![p].pc = "p_error"]
  /\ budget > 0
  /\ budget' = budget - 1
  /\ UNCHANGED <<acct, emails, subs, remote, today, sr, pendingProc,
                 aiEnabled, crashes, syncStarts, procStarts, lmCalls, escaped, broker, claude>>

\* End of one iteration of the for loop over the batch.
RowDone(r, counted) ==
  [r EXCEPT !.processed = IF counted THEN @ + 1 ELSE @,
            !.idx = @ + 1,
            !.pc = IF r.idx + 1 > Len(r.batch) THEN "p_remaining"
                   ELSE "p_row"]

AfterMark(r, result) ==
  IF result.cost > 0 THEN [r EXCEPT !.result = result, !.pc = "p_cost"]
  ELSE IF result.isSubscription
  THEN [r EXCEPT !.result = result, !.pc = "p_sub"]
  ELSE RowDone([r EXCEPT !.result = result], TRUE)

\* Mutant: the fallback paths report the provider of the rejection path.
HybridWithoutClaudeAsKeywords(msg) ==
  [isSubscription |-> IF KeywordBelowThreshold(msg) THEN FALSE
                      ELSE KeywordResult(msg).isSubscription,
   confidence |-> KeywordResult(msg).confidence,
   provider |-> "keywords",
   reasoning |-> IF KeywordBelowThreshold(msg) THEN "low keyword confidence"
                 ELSE "Claude API not available",
   cost |-> 0,
   serviceName |-> KeywordResult(msg).serviceName,
   amount |-> KeywordResult(msg).amount]

\* analyzeEmailHybrid, all paths that do not need the LM to answer.
HybridWithoutClaude(msg) ==
  IF KeywordBelowThreshold(msg)
  THEN [isSubscription |-> FALSE,
        confidence |-> KeywordResult(msg).confidence,
        provider |-> "keywords",
        reasoning |-> "low keyword confidence", cost |-> 0,
        serviceName |-> KeywordResult(msg).serviceName,
        amount |-> KeywordResult(msg).amount]
  ELSE [isSubscription |-> KeywordResult(msg).isSubscription,
        confidence |-> KeywordResult(msg).confidence,
        provider |-> "keywords_fallback",
        reasoning |-> "Claude API not available", cost |-> 0,
        serviceName |-> KeywordResult(msg).serviceName,
        amount |-> KeywordResult(msg).amount]

\* calculateCost(result.tokens_used.input, result.tokens_used.output) of
\* the LM's answer about each message.
ClaudeCost ==
  [msg \in 1..MaxMsgs |->
     calculateCost(ClaudeResult(msg).tokens_used.input,
                   ClaudeResult(msg).tokens_used.output)]

HybridWithClaude(msg) ==
  LET c == ClaudeResult(msg)
  IN [isSubscription |-> c.is_subscription, confidence |-> c.confidence,
      provider |-> "claude", reasoning |-> c.reasoning,
      cost |-> ClaudeCost[msg],
      serviceName |-> c.service_name, amount |-> c.amount]

\* Mutant: the LM is asked whatever the keyword confidence.
NeedsClaudeIgnoresConfidence(msg) == aiEnabled

NeedsClaude(msg) == ~KeywordBelowThreshold(msg) /\ aiEnabled

\* Loop body: analyzeEmailHybrid answers (the LM, when asked, succeeds),
\* then markEmailAsProcessed.
ProcAnalyzeRow(p) ==
  /\ pr[p].pc = "p_row"
  /\ LET row == pr[p].batch[pr[p].idx]
         result == IF NeedsClaude(row.msg) THEN HybridWithClaude(row.msg)
                   ELSE HybridWithoutClaude(row.msg)
     IN /\ emails' = markEmailAsProcessed(emails, row.id, result)
        /\ pr' = [pr EXCEPT ![p] = AfterMark(@, result)]
        /\ lmCalls' = IF NeedsClaude(row.msg)
                      THEN [lmCalls EXCEPT ![row.msg] = @ + 1]
                      ELSE lmCalls
  /\ UNCHANGED <<acct, subs, remote, today, sr, pendingProc,
                 aiEnabled, crashes, failures, syncStarts, procStarts, budget,
                 escaped, broker, claude>>

\* What analyzeEmailWithClaude throws: the error of the last HTTP attempt,
\* or that of parseClaudeResponse when the answer is no JSON even after
\* repairJSON.
ClaudeErrors == {"Claude API error", "Failed to parse Claude response as JSON"}

\* Loop body: analyzeEmailWithClaude throws inside analyzeEmailHybrid; the
\* catch block there answers with the keyword result, then mark.
ProcClaudeFails(p) ==
  /\ pr[p].pc = "p_row"
  /\ NeedsClaude(pr[p].batch[pr[p].idx].msg)
  /\ failures < MaxFailures
  /\ failures' = failures + 1
  /\ \E error \in ClaudeErrors :
     LET row == pr[p].batch[pr[p].idx]
         result == [HybridWithoutClaude(row.msg) EXCEPT
                      !.provider = "keywords_fallback",
                      !.reasoning = error]
     IN /\ emails' = markEmailAsProcessed(emails, row.id, result)
        /\ pr' = [pr EXCEPT ![p] = AfterMark(@, result)]
  /\ budget > 0
  /\ budget' = budget - 1
  /\ UNCHANGED <<acct, subs, remote, today, sr, pendingProc,
                 aiEnabled, crashes, syncStarts, procStarts, lmCalls, escaped, broker, claude>>

\* Loop body: analysis throws; the per-row catch block.
ProcRowThrows(p) ==
  /\ pr[p].pc = "p_row"
  /\ failures < MaxFailures
  /\ failures' = failures + 1
  /\ LET row == pr[p].batch[pr[p].idx]
         attempts == row.analysis_attempts + 1
     IN IF attempts >= MaxAnalysisRetries
        THEN /\ emails' = markEmailAsProcessed(emails, row.id,
                            [isSubscription |-> FALSE, confidence |-> 0,
                             provider |-> "error",
                             reasoning |-> "Failed after 3 attempts",
                             cost |-> 0, serviceName |-> "", amount |-> 0])
             /\ pr' = [pr EXCEPT ![p] = RowDone(@, TRUE)]
        ELSE /\ emails' = {IF r.id = row.id
                           THEN [r EXCEPT !.analysis_attempts = attempts]
                           ELSE r : r \in emails}
             /\ pr' = [pr EXCEPT ![p] = RowDone(@, FALSE)]
  /\ budget > 0
  /\ budget' = budget - 1
  /\ UNCHANGED <<acct, subs, remote, today, sr, pendingProc,
                 aiEnabled, crashes, syncStarts, procStarts, lmCalls, escaped, broker, claude>>

\* Loop body: the cost UPDATE or createSubscriptionFromEmail throws after the
\* row has been marked; the same per-row catch block.
ProcAfterMarkThrows(p) ==
  /\ pr[p].pc \in {"p_cost", "p_sub"}
  /\ failures < MaxFailures
  /\ failures' = failures + 1
  /\ LET row == pr[p].batch[pr[p].idx]
         attempts == row.analysis_attempts + 1
     IN IF attempts >= MaxAnalysisRetries
        THEN /\ emails' = markEmailAsProcessed(emails, row.id,
                            [isSubscription |-> FALSE, confidence |-> 0,
                             provider |-> "error",
                             reasoning |-> "Failed after 3 attempts",
                             cost |-> 0, serviceName |-> "", amount |-> 0])
             /\ pr' = [pr EXCEPT ![p] = RowDone(@, TRUE)]
        ELSE /\ emails' = {IF r.id = row.id
                           THEN [r EXCEPT !.analysis_attempts = attempts]
                           ELSE r : r \in emails}
             /\ pr' = [pr EXCEPT ![p] = RowDone(@, FALSE)]
  /\ budget > 0
  /\ budget' = budget - 1
  /\ UNCHANGED <<acct, subs, remote, today, sr, pendingProc,
                 aiEnabled, crashes, syncStarts, procStarts, lmCalls, escaped, broker, claude>>

\* Loop body: update account cost if there was an AI cost.
AddCost(a, cost) == [a EXCEPT !.ai_cost_total = @ + cost]

ProcAddCost(p) ==
  /\ pr[p].pc = "p_cost"
  /\ acct' = AddCost(acct, pr[p].result.cost)
  /\ pr' = [pr EXCEPT ![p] = IF @.result.isSubscription
                             THEN [@ EXCEPT !.pc = "p_sub"]
                             ELSE RowDone(@, TRUE)]
  /\ UNCHANGED <<emails, subs, remote, today, sr, pendingProc,
                 aiEnabled, crashes, failures, syncStarts, procStarts, budget,
                 lmCalls, escaped, broker, claude>>

\* createSubscriptionFromEmail: INSERT ... ON CONFLICT (user_id,
\* service_name, amount) DO NOTHING RETURNING id.
ProcCreateSubscription(p) ==
  /\ pr[p].pc = "p_sub"
  /\ LET res == pr[p].result
         row == pr[p].batch[pr[p].idx]
         missing == res.serviceName = "" \/ res.amount = 0
         conflict == \E x \in subs : x.service_name = res.serviceName
                                      /\ x.amount = res.amount
         inserted == ~missing /\ ~conflict
     IN /\ subs' = IF inserted
                   THEN subs \cup {[id |-> Cardinality(subs) + 1,
                                     email_id |-> row.id,
                                     service_name |-> res.serviceName,
                                     amount |-> res.amount]}
                   ELSE subs
        /\ pr' = [pr EXCEPT ![p] =
              RowDone([@ EXCEPT !.subscriptionsFound =
                                   IF inserted THEN @ + 1 ELSE @,
                                !.inserted =
                                   IF inserted THEN @ + 1 ELSE @], TRUE)]
  /\ UNCHANGED <<acct, emails, remote, today, sr, pendingProc,
                 aiEnabled, crashes, failures, syncStarts, procStarts, budget,
                 lmCalls, escaped, broker, claude>>

\* processEmailBatch step 3: check for more emails.
ProcRemaining(p) ==
  /\ pr[p].pc = "p_remaining"
  /\ pr' = [pr EXCEPT ![p].hasMore = Cardinality(Unprocessed) > 0,
                      ![p].pc = "p_progress"]
  /\ UNCHANGED <<acct, emails, subs, remote, today, sr, pendingProc,
                 aiEnabled, crashes, failures, syncStarts, procStarts, budget,
                 lmCalls, escaped, broker, claude>>

\* The remaining-rows query throws: processEmailBatch rejects and the batch's
\* counts are lost; the catch block of startEmailProcessing.
ProcRemainingFails(p) ==
  /\ pr[p].pc = "p_remaining"
  /\ failures < MaxFailures
  /\ failures' = failures + 1
  /\ pr' = [pr EXCEPT ![p].pc = "p_error"]
  /\ budget > 0
  /\ budget' = budget - 1
  /\ UNCHANGED <<acct, emails, subs, remote, today, sr, pendingProc,
                 aiEnabled, crashes, syncStarts, procStarts, lmCalls, escaped, broker, claude>>

\* Step 4: update progress after the batch.
UpdateProgress(a, processed, found) ==
  [a EXCEPT !.emails_analyzed = @ + processed,
            !.subscriptions_found = @ + found]

ProcProgress(p) ==
  /\ pr[p].pc = "p_progress"
  /\ acct' = UpdateProgress(acct, pr[p].processed, pr[p].subscriptionsFound)
  /\ pr' = [pr EXCEPT ![p].pc = IF pr[p].hasMore THEN "p_batch"
                                ELSE "p_complete"]
  /\ UNCHANGED <<emails, subs, remote, today, sr, pendingProc,
                 aiEnabled, crashes, failures, syncStarts, procStarts, budget,
                 lmCalls, escaped, broker, claude>>

\* Step 5: mark as completed.
ProcComplete(p) ==
  /\ pr[p].pc = "p_complete"
  /\ acct' = [acct EXCEPT !.processing_status = "completed",
                          !.processing_started_at = NoDate]
  /\ pr' = [pr EXCEPT ![p] = PrIdle]
  /\ UNCHANGED <<emails, subs, remote, today, sr, pendingProc,
                 aiEnabled, crashes, failures, syncStarts, procStarts, budget,
                 lmCalls, escaped, broker, claude>>

\* Catch block: mark as error but preserve progress for resume.
ProcErrorWrite(p) ==
  /\ pr[p].pc = "p_error"
  /\ acct' = [acct EXCEPT !.processing_status = "error"]
  /\ pr' = [pr EXCEPT ![p] = PrIdle]
  /\ UNCHANGED <<emails, subs, remote, today, sr, pendingProc,
                 aiEnabled, crashes, failures, syncStarts, procStarts, budget,
                 lmCalls, escaped, broker, claude>>

\* ============================================== supervisor, environment
AnyLive == (\E s \in SyncRunners : SrLive(s)) \/ (\E p \in ProcRunners : PrLive(p))
            \/ pendingProc > 0

\* The server process dies and is started again: every fiber is lost, and
\* resumeInterruptedTasks restarts sync for sync_status = syncing and
\* processing for processing_status = analyzing.
resumeInterruptedTasks ==
  /\ sr' = [s \in SyncRunners |->
             IF s = "s1" /\ acct.sync_status = "syncing"
             THEN [SrIdle EXCEPT !.pc = "s_resume", !.site = "boot"]
             ELSE SrIdle]
  /\ pr' = [p \in ProcRunners |->
             IF p = "p1" /\ acct.processing_status = "analyzing"
             THEN [PrIdle EXCEPT !.pc = "p_check"] ELSE PrIdle]

Restart ==
  /\ AnyLive
  /\ crashes < MaxCrashes
  /\ crashes' = crashes + 1
  /\ pendingProc' = 0
  /\ resumeInterruptedTasks
  /\ budget > 0
  /\ budget' = budget - 1
  /\ UNCHANGED <<acct, emails, subs, remote, today, aiEnabled, failures,
                 syncStarts, procStarts, lmCalls, escaped, broker, claude>>

\* The server process dies and is started again, and the scan query of
\* resumeInterruptedTasks throws: the catch block logs it, nothing is
\* restarted, and the function returns normally to the boot sequence.
RestartScanFails ==
  /\ AnyLive
  /\ crashes < MaxCrashes
  /\ crashes' = crashes + 1
  /\ pendingProc' = 0
  /\ sr' = [s \in SyncRunners |-> SrIdle]
  /\ pr' = [p \in ProcRunners |-> PrIdle]
  /\ budget > 0
  /\ budget' = budget - 1
  /\ UNCHANGED <<acct, emails, subs, remote, today, aiEnabled, failures,
                 syncStarts, procStarts, lmCalls, escaped, broker, claude>>

\* A new message matching the filter arrives in the remote mailbox.
MailArrives ==
  /\ Len(remote) < MaxMsgs
  /\ remote' = Append(remote, Len(remote) + 1)
  /\ budget > 0
  /\ budget' = budget - 1
  /\ UNCHANGED <<acct, emails, subs, today, sr, pr, pendingProc, aiEnabled,
                 crashes, failures, syncStarts, procStarts, lmCalls, escaped, broker, claude>>

\* Midnight passes.
Tick ==
  /\ today < MaxDay
  /\ today' = today + 1
  /\ UNCHANGED <<acct, emails, subs, remote, sr, pr, pendingProc, aiEnabled,
                 crashes, failures, syncStarts, procStarts, budget, lmCalls, escaped, broker, claude>>

\* ========================================================= Token Broker
NonBrokerVarsButClaude ==
  <<emails, subs, remote, today, sr, pr, pendingProc, aiEnabled, crashes,
    failures, syncStarts, procStarts, budget, lmCalls, escaped>>

NonBrokerVars ==
  <<emails, subs, remote, today, sr, pr, pendingProc, aiEnabled, crashes,
    failures, syncStarts, procStarts, budget, lmCalls, escaped, claude>>

\* The token columns of the row, as getGmailAccountById returns them.
getGmailAccountById(a) ==
  [access_token |-> decrypt(a.access_token_encrypted),
   token_expiry |-> a.token_expiry]

updateGmailAccountTokens(a, accessToken, expiresAt, salt) ==
  [a EXCEPT !.access_token_encrypted = encrypt(accessToken, salt),
            !.token_expiry = expiresAt]

\* Mutant: a token expiring in exactly the buffer counts as expiring.
TokenExpiringAtBuffer(account, now) ==
  account.token_expiry - now <= ExpiryBuffer

\* new Date(account.token_expiry).getTime() - Date.now() < expiryBuffer
TokenExpiring(account, now) ==
  account.token_expiry - now < ExpiryBuffer

\* A listing or a message fetch asks for the access token.
GetAccessTokenCall(g) ==
  /\ broker.call[g].pc \in {"idle", "returned", "threw"}
  /\ broker.calls < MaxTokenCalls
  /\ broker' = [broker EXCEPT !.calls = @ + 1,
                              !.call[g] = [GaIdle EXCEPT !.pc = "g_read"]]
  /\ UNCHANGED <<acct, NonBrokerVars>>

\* getAccessToken: read the account, compare the expiry, return or refresh.
GetAccessTokenRead(g) ==
  /\ broker.call[g].pc = "g_read"
  /\ LET account == getGmailAccountById(acct)
     IN broker' = [broker EXCEPT !.call[g] =
          IF TokenExpiring(account, broker.now)
          THEN [@ EXCEPT !.account = account, !.pc = "r_read"]
          ELSE [@ EXCEPT !.account = account, !.pc = "returned",
                         !.returned = account.access_token]]
  /\ UNCHANGED <<acct, NonBrokerVars>>

\* refreshAccessToken: read the account and its credential.
RefreshRead(g) ==
  /\ broker.call[g].pc = "r_read"
  /\ broker' = [broker EXCEPT !.call[g].account = getGmailAccountById(acct),
                              !.call[g].pc = "r_fetch"]
  /\ UNCHANGED <<acct, NonBrokerVars>>

\* refreshAccessToken: the provider answers with a new access token.
RefreshFetch(g) ==
  /\ broker.call[g].pc = "r_fetch"
  /\ \E expires_in \in ExpiresInValues :
       broker' = [broker EXCEPT
         !.issued = @ + 1,
         !.call[g] = [@ EXCEPT
            !.tokens = [access_token |-> broker.issued + 1,
                        expires_in |-> expires_in],
            !.expiresAt = broker.now + expires_in,
            !.contacted = TRUE,
            !.pc = "r_update"]]
  /\ UNCHANGED <<acct, NonBrokerVars>>

\* refreshAccessToken: the provider refuses; AppError 401 is thrown.
RefreshFetchFails(g) ==
  /\ broker.call[g].pc = "r_fetch"
  /\ broker' = [broker EXCEPT !.refused = @ + 1,
                              !.call[g].contacted = TRUE,
                              !.call[g].pc = "threw"]
  /\ UNCHANGED <<acct, NonBrokerVars>>

\* refreshAccessToken: store the token with its expiry and return it.
RefreshUpdate(g) ==
  /\ broker.call[g].pc = "r_update"
  /\ \E salt \in Salts :
       acct' = updateGmailAccountTokens(acct,
                 broker.call[g].tokens.access_token,
                 broker.call[g].expiresAt, salt)
  /\ broker' = [broker EXCEPT
       !.call[g].returned = broker.call[g].tokens.access_token,
       !.call[g].pc = "returned"]
  /\ UNCHANGED NonBrokerVars

\* A minute passes.
ClockTick ==
  /\ broker.now < MaxNow
  /\ broker' = [broker EXCEPT !.now = @ + 1]
  /\ UNCHANGED <<acct, NonBrokerVars>>

TokenStep(g) ==
  \/ GetAccessTokenCall(g) \/ GetAccessTokenRead(g) \/ RefreshRead(g)
  \/ RefreshFetch(g) \/ RefreshFetchFails(g) \/ RefreshUpdate(g)

TokenNext == (\E g \in TokenCallers : TokenStep(g)) \/ ClockTick

\* ============================================================ LM request
\* callClaudeAPIWithRetries(prompt): for (attempt = 1; ...).
CallClaudeAPIWithRetries ==
  /\ claude.pc \in {"idle", "returned", "threw"}
  /\ claude.requests < MaxClaudeRequests
  /\ claude' = [ClaudeIdle EXCEPT !.pc = "c_fetch", !.attempt = 1,
                                  !.requests = claude.requests + 1]
  /\ UNCHANGED <<acct, broker, NonBrokerVarsButClaude>>

\* callClaudeAPI answers: return await callClaudeAPI(prompt).
CallClaudeAPIAnswers ==
  /\ claude.pc = "c_fetch"
  /\ claude' = [claude EXCEPT !.pc = "returned"]
  /\ UNCHANGED <<acct, broker, NonBrokerVarsButClaude>>

IsRetriable(e) ==
  \/ "429" \in ApiMessageIncludes(e)
  \/ "500" \in ApiMessageIncludes(e)
  \/ "503" \in ApiMessageIncludes(e)

\* The catch block of the loop body and, when it neither throws nor sleeps,
\* the loop's attempt++ and test, with the throw after the loop.
CatchApiError(c, e) ==
  LET c1 == [c EXCEPT !.lastError = e, !.errors = Append(@, e)]
  IN IF "401" \in ApiMessageIncludes(e)
     THEN [c1 EXCEPT !.pc = "threw"]
     ELSE IF c.attempt < MaxRetries /\ IsRetriable(e)
     THEN [c1 EXCEPT !.pc = "c_sleep",
                     !.slept = Append(@, Delays[c.attempt])]
     ELSE IF c.attempt + 1 <= MaxRetries
     THEN [c1 EXCEPT !.attempt = @ + 1]
     ELSE [c1 EXCEPT !.pc = "threw"]

\* callClaudeAPI throws.
CallClaudeAPIFails ==
  /\ claude.pc = "c_fetch"
  /\ \E e \in ApiErrors : claude' = CatchApiError(claude, e)
  /\ UNCHANGED <<acct, broker, NonBrokerVarsButClaude>>

\* The backoff timer fires: continue, attempt++.
BackoffElapses ==
  /\ claude.pc = "c_sleep"
  /\ claude' = [claude EXCEPT !.pc = "c_fetch", !.attempt = @ + 1]
  /\ UNCHANGED <<acct, broker, NonBrokerVarsButClaude>>

RetryNext ==
  \/ CallClaudeAPIWithRetries \/ CallClaudeAPIAnswers
  \/ CallClaudeAPIFails \/ BackoffElapses

SyncStep(s) ==
  \/ SyncReadResume(s) \/ SyncDecide(s) \/ SyncClearMismatch(s)
  \/ SyncInit(s) \/ SyncCountPage(s) \/ SyncCounted(s) \/ SyncFetchPage(s)
  \/ SyncSaveMessage(s) \/ SyncSaveProgress(s)
  \/ SyncCompleteClear(s) \/ SyncComplete(s)
  \/ SyncErrorClear(s) \/ SyncErrorWrite(s)

SyncFailure(s) ==
  \/ SyncListFails(s) \/ SyncSkipMessage(s) \/ SyncSaveProgressFails(s)
  \/ SyncSaveProgressRollbackFails(s)

ProcStep(p) ==
  \/ ProcCheck(p) \/ ProcReadResume(p) \/ ProcCount(p) \/ ProcInit(p)
  \/ ProcSetAnalyzing(p) \/ ProcSelectBatch(p) \/ ProcAnalyzeRow(p)
  \/ ProcAddCost(p) \/ ProcCreateSubscription(p) \/ ProcRemaining(p)
  \/ ProcProgress(p) \/ ProcComplete(p) \/ ProcErrorWrite(p)

ProcFailure(p) ==
  \/ ProcBatchFails(p) \/ ProcClaudeFails(p) \/ ProcRowThrows(p)
  \/ ProcAfterMarkThrows(p) \/ ProcRemainingFails(p)

Next ==
  \/ \E s \in SyncRunners : StartSync(s) \/ SyncStep(s) \/ SyncFailure(s)
  \/ \E p \in ProcRunners : StartProcessing(p) \/ ChainedProcessing(p)
                              \/ ProcStep(p) \/ ProcFailure(p)
  \/ Restart
  \/ RestartScanFails
  \/ MailArrives
  \/ Tick

Spec == Init /\ [][Next]_vars

\* The Token Broker alone, for the account as the OAuth callback stores it:
\* no run is in progress, callers ask for the access token as time passes.
TokenSpec == Init /\ [][TokenNext]_vars

\* The LM request on its own.
RetrySpec == Init /\ [][RetryNext]_vars

\* The sync side alone.  Process Runner steps write only the processing
\* columns of the account and the analysis columns of emails rows, which no
\* Sync Runner step reads, so they are left unscheduled here and the event
\* budget is spent on the sync side.
SyncOnlyInit ==
  /\ acct = InitAcct
  /\ emails = {}
  /\ subs = {}
  /\ remote = [i \in 1..InitialMsgs |-> i]
  /\ today = 0
  /\ sr = [s \in SyncRunners |-> SrIdle]
  /\ pr = [p \in ProcRunners |-> PrIdle]
  /\ pendingProc = 0
  /\ aiEnabled = TRUE
  /\ crashes = 0 /\ failures = 0 /\ syncStarts = 0 /\ procStarts = 0
  /\ budget = MaxSyncEvents
  /\ lmCalls = [msg \in 1..MaxMsgs |-> 0]
  /\ escaped = 0
  /\ broker = BrokerIdle
  /\ claude = ClaudeIdle

SyncOnlyNext ==
  \/ \E s \in SyncRunners : StartSync(s) \/ SyncStep(s) \/ SyncFailure(s)
  \/ Restart
  \/ RestartScanFails
  \/ MailArrives
  \/ Tick

SyncSpec == SyncOnlyInit /\ [][SyncOnlyNext]_vars

\* The process side alone, from the state an initial sync of a static mailbox
\* leaves when it completes: every message has its Mail Row, the sync columns
\* are final and the chained startEmailProcessing call is pending.
SyncedAcct ==
  [InitAcct EXCEPT !.sync_status = "completed",
                   !.total_emails = InitialMsgs,
                   !.processed_emails = InitialMsgs,
                   !.is_initial_sync_complete = TRUE,
                   !.last_sync = 0]

SyncedRows ==
  {[id |-> i, msg |-> i, processed |-> FALSE, is_subscription |-> FALSE,
    subscription_confidence |-> 0, ai_provider |-> "none",
    ai_reasoning |-> "", analysis_attempts |-> 0] : i \in 1..InitialMsgs}

ProcOnlyInit ==
  /\ acct = SyncedAcct
  /\ emails = SyncedRows
  /\ subs = {}
  /\ remote = [i \in 1..InitialMsgs |-> i]
  /\ today = 0
  /\ sr = [s \in SyncRunners |-> SrIdle]
  /\ pr = [p \in ProcRunners |-> PrIdle]
  /\ pendingProc = 1
  /\ aiEnabled \in BOOLEAN
  /\ crashes = 0 /\ failures = 0 /\ syncStarts = 1 /\ procStarts = 0
  /\ budget = MaxProcEvents
  /\ lmCalls = [msg \in 1..MaxMsgs |-> 0]
  /\ escaped = 0
  /\ broker = BrokerIdle
  /\ claude = ClaudeIdle

ProcOnlyNext ==
  \/ \E p \in ProcRunners : StartProcessing(p) \/ ChainedProcessing(p)
                              \/ ProcStep(p) \/ ProcFailure(p)
  \/ Restart
  \/ RestartScanFails

ProcSpec == ProcOnlyInit /\ [][ProcOnlyNext]_vars

\* Sync and processing side by side without failures, restarts or further
\* triggers: the initial sync has completed and its chained
\* startEmailProcessing call is pending, one more message has arrived, and
\* POST /accounts/:id/sync has just started the incremental run.
WakeInit ==
  /\ acct = SyncedAcct
  /\ emails = SyncedRows
  /\ subs = {}
  /\ remote = [i \in 1..(InitialMsgs + 1) |-> i]
  /\ today = 0
  /\ sr = [s \in SyncRunners |->
            IF s = "s1" THEN [SrIdle EXCEPT !.pc = "s_resume", !.site = "route"]
            ELSE SrIdle]
  /\ pr = [p \in ProcRunners |-> PrIdle]
  /\ pendingProc = 1
  /\ aiEnabled \in BOOLEAN
  /\ crashes = 0 /\ failures = 0 /\ syncStarts = 2 /\ procStarts = 0
  /\ budget = 0
  /\ lmCalls = [msg \in 1..MaxMsgs |-> 0]
  /\ escaped = 0
  /\ broker = BrokerIdle
  /\ claude = ClaudeIdle

\* The steps of a run that meets no failure.
WakeSyncStep(s) ==
  \/ SyncReadResume(s) \/ SyncDecide(s)
  \/ SyncInit(s) \/ SyncCountPage(s) \/ SyncCounted(s) \/ SyncFetchPage(s)
  \/ SyncSaveMessage(s) \/ SyncSaveProgress(s)
  \/ SyncCompleteClear(s) \/ SyncComplete(s)

WakeProcStep(p) ==
  \/ ChainedProcessing(p)
  \/ ProcCheck(p) \/ ProcReadResume(p) \/ ProcCount(p) \/ ProcInit(p)
  \/ ProcSetAnalyzing(p) \/ ProcSelectBatch(p) \/ ProcAnalyzeRow(p)
  \/ ProcAddCost(p) \/ ProcCreateSubscription(p) \/ ProcRemaining(p)
  \/ ProcProgress(p) \/ ProcComplete(p)

WakeNext ==
  \/ \E s \in SyncRunners : WakeSyncStep(s)
  \/ \E p \in ProcRunners : WakeProcStep(p)

\* Every continuation that is ready is run by the event loop.
WakeFairness ==
  /\ \A s \in SyncRunners : WF_vars(WakeSyncStep(s))
  /\ \A p \in ProcRunners : WF_vars(WakeProcStep(p))

WakeSpec == WakeInit /\ [][WakeNext]_vars /\ WakeFairness

\* Process runs with failures but without restarts: every continuation of a
\* run that is ready is run by the event loop, whatever its outcome.
MaxTermEvents == 4
TermMsgs == 2

TermInit ==
  /\ acct = [SyncedAcct EXCEPT !.total_emails = TermMsgs,
                               !.processed_emails = TermMsgs]
  /\ emails = {r \in SyncedRows : r.id <= TermMsgs}
  /\ subs = {}
  /\ remote = [i \in 1..TermMsgs |-> i]
  /\ today = 0
  /\ sr = [s \in SyncRunners |-> SrIdle]
  /\ pr = [p \in ProcRunners |-> PrIdle]
  /\ pendingProc = 1
  /\ aiEnabled = TRUE
  /\ crashes = 0 /\ failures = 0 /\ syncStarts = 1 /\ procStarts = 0
  /\ budget = MaxTermEvents
  /\ lmCalls = [msg \in 1..MaxMsgs |-> 0]
  /\ escaped = 0
  /\ broker = BrokerIdle
  /\ claude = ClaudeIdle

TermNext ==
  \E p \in ProcRunners : StartProcessing(p) \/ ChainedProcessing(p)
                            \/ ProcStep(p) \/ ProcFailure(p)

TermFairness ==
  \A p \in ProcRunners : WF_vars(ProcStep(p) \/ ProcFailure(p))

TermSpec == TermInit /\ [][TermNext]_vars /\ TermFairness

\* ------------------------------------------- manual subscription routes
\* Request bodies of POST /subscriptions and PUT /subscriptions/:id.
ManualServices == {"Netflix", "Spotify"}
ManualAmounts == {1599, 999}

\* Mutant: the subscriptions table has no unique key.
SubscriptionKeyNeverTaken(rows, id, serviceName, amount) == FALSE

\* The unique key (user_id, service_name, amount) of the subscriptions
\* table: a statement that would leave two rows with the same key fails.
SubscriptionKeyTaken(rows, id, serviceName, amount) ==
  \E x \in rows : x.id # id /\ x.service_name = serviceName /\ x.amount = amount

\* POST /subscriptions: createSubscription, a plain INSERT.
CreateSubscription ==
  /\ budget > 0
  /\ budget' = budget - 1
  /\ \E serviceName \in ManualServices, amount \in ManualAmounts :
        LET id == Cardinality(subs) + 1
        IN subs' = IF SubscriptionKeyTaken(subs, id, serviceName, amount)
                   THEN subs
                   ELSE subs \cup {[id |-> id, email_id |-> 0,
                                     service_name |-> serviceName,
                                     amount |-> amount]}
  /\ UNCHANGED <<acct, emails, remote, today, sr, pr, pendingProc, aiEnabled,
                 crashes, failures, syncStarts, procStarts, lmCalls, escaped, broker, claude>>

\* PUT /subscriptions/:id: updateSubscription sets the fields the body gives.
UpdateSubscription ==
  /\ budget > 0
  /\ budget' = budget - 1
  /\ \E x \in subs, serviceName \in ManualServices \cup {NoStr},
        amount \in ManualAmounts \cup {NoInt} :
        LET y == [x EXCEPT !.service_name = IF serviceName = NoStr THEN @
                                            ELSE serviceName,
                           !.amount = IF amount = NoInt THEN @ ELSE amount]
        IN /\ serviceName # NoStr \/ amount # NoInt
           /\ subs' = IF SubscriptionKeyTaken(subs, y.id, y.service_name, y.amount)
                      THEN subs
                      ELSE (subs \ {x}) \cup {y}
  /\ UNCHANGED <<acct, emails, remote, today, sr, pr, pendingProc, aiEnabled,
                 crashes, failures, syncStarts, procStarts, lmCalls, escaped, broker, claude>>

\* The process side with the manual subscription routes.
SubsInit ==
  /\ acct = SyncedAcct
  /\ emails = SyncedRows
  /\ subs = {}
  /\ remote = [i \in 1..InitialMsgs |-> i]
  /\ today = 0
  /\ sr = [s \in SyncRunners |-> SrIdle]
  /\ pr = [p \in ProcRunners |-> PrIdle]
  /\ pendingProc = 1
  /\ aiEnabled \in BOOLEAN
  /\ crashes = 0 /\ failures = 0 /\ syncStarts = 1 /\ procStarts = 0
  /\ budget = MaxSubsEvents
  /\ lmCalls = [msg \in 1..MaxMsgs |-> 0]
  /\ escaped = 0
  /\ broker = BrokerIdle
  /\ claude = ClaudeIdle

SubsNext ==
  \/ \E p \in ProcRunners : StartProcessing(p) \/ ChainedProcessing(p)
                              \/ ProcStep(p) \/ ProcFailure(p)
  \/ CreateSubscription
  \/ UpdateSubscription
  \/ Restart
  \/ RestartScanFails

SubsSpec == SubsInit /\ [][SubsNext]_vars

\* ================================================================ claims
SyncWorking(s) == sr[s].pc \notin {"idle", "s_resume", "s_account"}

InBatchLoop(p) ==
  pr[p].pc \in {"p_batch", "p_row", "p_cost", "p_sub", "p_remaining",
                "p_progress"}

Quiescent == ~AnyLive

MailboxStatic == Len(remote) = InitialMsgs

RowIds == {r.msg : r \in emails}

\* C1: a StartSync call made while sync_status = syncing and another Sync
\* Runner is still executing refuses to start: it never gets past the resume
\* decision, so two executions of syncGmailAccount never overlap.
C1_BusyStartRefused ==
  \A s \in SyncRunners : sr[s].busyAtStart => ~SyncWorking(s)

C3_RestartFinishesProcessing ==
  (crashes > 0 /\ failures = 0 /\ Quiescent)
     => ~(acct.processing_status = "analyzing" /\ Unprocessed # {})

\* C4: a syncGmailAccount execution whose first read finds sync_status =
\* syncing, a non-empty last_page_token and a stored query_hash equal to the
\* hash of the current query does not re-initialise and does not count: its
\* next step is the fetch loop, at last_page_token, with its processed count
\* set to the stored processed_emails; and when such a resumed execution
\* completes on a static mailbox with no failure, it leaves sync_status =
\* completed and processed_emails = the number of messages the query yields.
C4_ResumeDecision(s) ==
  LET rs == sr[s].resume
  IN (/\ sr[s].pc = "s_account" /\ sr'[s].pc # "s_account"
      /\ crashes' = crashes
      /\ rs.canResume /\ rs.queryHash = sr'[s].hash)
     => /\ sr'[s].pc = "s_fetch"
        /\ sr'[s].isResuming
        /\ sr'[s].pageToken = rs.resumeToken
        /\ sr'[s].processedCount = rs.processedCount
        /\ acct' = acct

C4_ResumedCompletion(s) ==
  (/\ sr[s].pc = "s_complete2" /\ sr'[s].pc = "idle"
   /\ crashes' = crashes
   /\ sr[s].isResuming /\ MailboxStatic /\ failures = 0)
  => /\ acct'.sync_status = "completed"
     /\ acct'.processed_emails = Len(remote)

C4_ResumeContinuesAndCompletes ==
  [][\A s \in SyncRunners : C4_ResumeDecision(s) /\ C4_ResumedCompletion(s)]_vars
FetchDone(s) == sr[s].pc \in {"s_complete1", "s_complete2"}

\* C5: for a fixed remote mailbox and an unchanged query, with no failure,
\* a Sync Runner that reaches completion has left exactly the Mail Rows of
\* an uninterrupted run, one per remote message of the mailbox, whether or
\* not the run was killed after a cursor write and resumed.
C5_ResumeIdempotence ==
  (MailboxStatic /\ failures = 0 /\ \E s \in SyncRunners : FetchDone(s))
     => RowIds = Range(remote)

\* A run killed after a cursor write, resumed from the cursor, at completion.
C5_Witness ==
  /\ MailboxStatic /\ failures = 0 /\ crashes > 0
  /\ \E s \in SyncRunners :
        /\ FetchDone(s) /\ sr[s].isResuming
        /\ sr[s].resume.resumeToken # 0
  /\ RowIds = Range(remote)
C7_OneRowPerRemoteId ==
  \A r1, r2 \in emails : r1.msg = r2.msg => r1 = r2

\* Two Sync Runners on the account have both saved the same remote message,
\* or a run after a restart has saved a message again.
C7_Witness ==
  /\ emails # {}
  /\ \/ \E s, t \in SyncRunners :
          s # t /\ sr[s].lastId # 0 /\ sr[s].lastId = sr[t].lastId
     \/ crashes > 0 /\ \E s \in SyncRunners :
          sr[s].lastId # 0 /\ ~sr[s].isResuming /\ Cardinality(emails) > sr[s].processedCount
\* C8: at every observable instant 0 <= processed_emails <= total_emails,
\* whatever the remote mailbox does between the count phase and the fetch
\* phase.
C8_ProcessedWithinTotal ==
  /\ 0 <= acct.processed_emails
  /\ acct.processed_emails <= acct.total_emails

\* C9: at every observable instant 0 <= emails_analyzed <= emails_to_analyze.
C9_AnalyzedWithinToAnalyze ==
  /\ 0 <= acct.emails_analyzed
  /\ acct.emails_analyzed <= acct.emails_to_analyze
\* C10: no step of a Sync Runner, a Process Runner or the Supervisor lowers
\* or resets ai_cost_total.
C10_CostNeverDecreases ==
  [][acct'.ai_cost_total >= acct.ai_cost_total]_vars

\* A process run initialised its counters when ai_cost_total was already
\* positive, and the cost is still there.
C10_Witness ==
  \E p \in ProcRunners :
     /\ pr[p].costAtInit > 0
     /\ acct.ai_cost_total >= pr[p].costAtInit
     /\ acct.emails_analyzed = 0
SyncedState ==
  /\ acct = SyncedAcct /\ emails = SyncedRows /\ subs = {}
  /\ remote = [i \in 1..InitialMsgs |-> i] /\ today = 0
  /\ sr = [s \in SyncRunners |-> SrIdle] /\ pr = [p \in ProcRunners |-> PrIdle]
  /\ pendingProc = 1 /\ crashes = 0 /\ failures = 0
  /\ syncStarts = 1 /\ procStarts = 0
CurrentRow(p) == pr[p].batch[pr[p].idx]

\* C11 (as claimed): every processed Mail Row whose keyword confidence is
\* below the threshold has ai_provider = keywords and is_subscription =
\* false, and no Process Runner is about to add a cost or a subscription for
\* such a row.
C11_LowConfidenceIsKeywords ==
  /\ \A r \in emails :
        (r.processed /\ KeywordBelowThreshold(r.msg))
           => (r.ai_provider = "keywords" /\ ~r.is_subscription)
  /\ \A p \in ProcRunners :
        pr[p].pc \in {"p_cost", "p_sub"}
           => ~KeywordBelowThreshold(CurrentRow(p).msg)

\* C11 (amended): such a row is never given to the LM, is never a
\* subscription and adds no cost; it is marked with ai_provider = keywords,
\* or with ai_provider = error when its processing threw on the attempt that
\* reached MAX_ANALYSIS_RETRIES.
C11_LowConfidenceNeverReachesLM ==
  /\ \A r \in emails :
        (r.processed /\ KeywordBelowThreshold(r.msg))
           => /\ ~r.is_subscription
              /\ r.ai_provider \in {"keywords", "error"}
  /\ \A p \in ProcRunners :
        pr[p].pc \in {"p_cost", "p_sub"}
           => ~KeywordBelowThreshold(CurrentRow(p).msg)

C11_Witness ==
  /\ aiEnabled /\ acct.ai_cost_total > 0
  /\ \E r \in emails :
        r.processed /\ KeywordBelowThreshold(r.msg) /\ r.ai_provider = "keywords"
SubscriptionKey(x) == <<x.service_name, x.amount>>

RunEnds(p) ==
  /\ pr[p].pc \in {"p_complete", "p_error"} /\ pr'[p].pc = "idle"
  /\ crashes' = crashes

\* C13: a row whose (service_name, amount) already exists as a Subscription
\* inserts nothing and does not count as found; and when a process run ends,
\* subscriptions_found has grown since the run's start by exactly the number
\* of Subscription rows the run inserted.
C13_DuplicateNotInserted(p) ==
  (/\ pr[p].pc = "p_sub" /\ pr'[p].pc # "p_sub" /\ crashes' = crashes
   /\ \E x \in subs : /\ x.service_name = pr[p].result.serviceName
                      /\ x.amount = pr[p].result.amount)
  => /\ subs' = subs
     /\ pr'[p].subscriptionsFound = pr[p].subscriptionsFound

C13_FoundIsInserted(p) ==
  RunEnds(p) => acct.subscriptions_found = pr[p].foundBase + pr[p].inserted

C13_FoundCountsInsertedRows ==
  [][\A p \in ProcRunners : C13_DuplicateNotInserted(p) /\ C13_FoundIsInserted(p)]_vars
\* C14: is_initial_sync_complete never goes from true to false, and the
\* only step that sets it is the completion write of an initial run.
C14_InitialFlagStep ==
  /\ acct.is_initial_sync_complete => acct'.is_initial_sync_complete
  /\ (~acct.is_initial_sync_complete /\ acct'.is_initial_sync_complete)
       => \E s \in SyncRunners :
             /\ sr[s].pc = "s_complete2" /\ sr[s].syncType = "initial"
             /\ sr'[s].pc = "idle"

C14_InitialFlagOnlyRises == [][C14_InitialFlagStep]_vars

\* An incremental run has initialised, fetched and cleared the resume data
\* and is about to complete, the flag still set.
C14_Witness ==
  /\ acct.is_initial_sync_complete
  /\ \E s \in SyncRunners :
        sr[s].syncType = "incremental" /\ sr[s].pc = "s_complete2"

\* round6 of the exact cost, in micro-dollars: the integer nearest to
\* (i * 0.25 + o * 1.25), halves upwards.
Round6MicroDollars(i, o) == (2 * (i + 5 * o) + 4) \div 8

CostDue(msg) ==
  Round6MicroDollars(TokensUsed(msg).input, TokensUsed(msg).output)

RECURSIVE CostDueUpTo(_)
CostDueUpTo(n) ==
  IF n = 0 THEN 0 ELSE lmCalls[n] * CostDue(n) + CostDueUpTo(n - 1)

CostInFlight(p) ==
  IF pr[p].pc = "p_cost" THEN CostDue(CurrentRow(p).msg) ELSE 0

\* C15: every answer of the LM with usage (i, o) adds exactly
\* round6(i * 0.25/1e6 + o * 1.25/1e6) to ai_cost_total and nothing else
\* adds to it: ai_cost_total, plus the additions a Process Runner is about
\* to write, is the sum of round6 over the answers the LM has given.
C15_CostIsSumOfRound6 ==
  acct.ai_cost_total + CostInFlight("p1") + CostInFlight("p2")
    = CostDueUpTo(MaxMsgs)

\* The run of Sync Runner s found resumable state whose stored query_hash
\* differs from the fingerprint of its query.
Drifted(s) ==
  /\ sr[s].pc \notin {"idle", "s_resume", "s_account"}
  /\ sr[s].resume.canResume
  /\ sr[s].resume.queryHash # sr[s].hash

C16_DriftStep(s) ==
  /\ \* the decision: not a resume, the resume fields are to be cleared
     (sr[s].pc = "s_account" /\ Drifted(s)' /\ sr'[s].err = NoStr)
       => sr'[s].pc = "s_clear" /\ ~sr'[s].isResuming
  /\ \* the resume fields are cleared
     (sr[s].pc = "s_clear" /\ sr'[s].pc = "s_init")
       => /\ acct'.last_page_token = 0
          /\ acct'.last_processed_message_id = 0
          /\ acct'.query_hash = NoHash
  /\ \* the run re-initialises: counters zeroed, new query_hash stored
     (Drifted(s) /\ sr[s].pc = "s_init" /\ sr'[s].pc = "s_count")
       => /\ acct'.sync_status = "syncing"
          /\ acct'.processed_emails = 0
          /\ acct'.last_page_token = 0
          /\ acct'.last_processed_message_id = 0
          /\ acct'.query_hash = sr[s].hash
          /\ sr'[s].totalCount = 0 /\ sr'[s].countToken = 0
  /\ \* it recounts total_emails and fetches from the first page
     (Drifted(s) /\ sr'[s].pc = "s_fetch" /\ sr[s].pc \notin {"s_save", "s_fetch"})
       => /\ sr[s].pc = "s_counted"
          /\ acct'.total_emails = sr[s].totalCount
          /\ sr'[s].pageToken = 0
          /\ sr'[s].processedCount = 0
  /\ \* Mail Rows persisted earlier remain
     Drifted(s) => \A r \in emails : \E q \in emails' : q.id = r.id /\ q.msg = r.msg

\* C16: when a sync run starts with resumable state whose stored query_hash
\* differs from the fingerprint of the current query, the resume fields are
\* cleared, the run re-initialises (counters zeroed, the new query_hash
\* stored), recounts total_emails and fetches from the first page, and the
\* Mail Rows persisted before remain.
C16_DriftStartsFromScratch == [][\A s \in SyncRunners : C16_DriftStep(s)]_vars

C16_Witness ==
  \E s \in SyncRunners :
    /\ Drifted(s)
    /\ sr[s].pc = "s_fetch" /\ sr[s].pageToken = 0 /\ sr[s].yielded = {}
    /\ acct.query_hash = sr[s].hash
    /\ acct.total_emails = sr[s].totalCount /\ sr[s].totalCount > 0
    /\ acct.processed_emails = 0 /\ acct.last_page_token = 0
    /\ emails # {}

ResumeFields(a) ==
  <<a.last_page_token, a.last_processed_message_id, a.processed_emails,
    a.query_hash>>

\* Sync Runner s ends its failed run: the last write of the catch block.
RunFails(s) == sr[s].pc = "s_err_write" /\ sr'[s].pc = "idle" /\ crashes' = crashes

\* The class of a failed listing by the HTTP status the provider answered.
ClassOfStatus(e) ==
  CASE e = "http401" -> "auth"
    [] e = "http429" -> "rate"
    [] e = "http500" -> "network"
    [] OTHER -> ErrorClass(e)

C17_ErrorStep(s) ==
  /\ \* entry of the catch block: only an authentication error clears
     (sr[s].err = NoStr /\ sr'[s].err # NoStr)
       => /\ sr'[s].pc = IF ClassOfStatus(sr'[s].err) = "auth"
                         THEN "s_err_clear" ELSE "s_err_write"
          /\ acct' = acct
  /\ \* authentication error: the resume fields are cleared
     (sr[s].pc = "s_err_clear" /\ sr'[s].pc = "s_err_write")
       => /\ acct'.last_page_token = 0
          /\ acct'.last_processed_message_id = 0
          /\ acct'.query_hash = NoHash
  /\ \* the run ends with status error and the message of its class, and
     \* this write leaves the resume fields as they are
     RunFails(s)
       => /\ acct'.sync_status = "error"
          /\ acct'.last_error = ErrorMessage(ClassOfStatus(sr[s].err))
          /\ acct'.last_error # ""
          /\ ResumeFields(acct') = ResumeFields(acct)

\* C17: a failing sync run ends with sync_status = error and last_error
\* set; an authentication error (401/403) clears the resume fields, and for
\* a rate-limit, network or unknown error the handler leaves
\* last_page_token, last_processed_message_id, processed_emails and
\* query_hash as last written.
C17_ErrorClassification == [][\A s \in SyncRunners : C17_ErrorStep(s)]_vars

\* A rate-limit error has ended a run that had saved progress.
C17_Witness ==
  /\ acct.sync_status = "error"
  /\ acct.last_error = ErrorMessage("rate")
  /\ acct.last_page_token # 0 /\ acct.processed_emails > 0
  /\ acct.query_hash # NoHash
  /\ \A s \in SyncRunners : sr[s].pc = "idle"


\* The fingerprint a run starting now computes for its query.
CurrentQueryHash ==
  calculateQueryHash(buildGmailSyncQuery(
    IF acct.is_initial_sync_complete THEN "incremental" ELSE "initial",
    acct.last_sync))

\* The account as a run ended by a rate-limit or network error left it,
\* with a saved cursor and the query unchanged since.
StoppedByTransientError ==
  /\ acct.sync_status = "error"
  /\ acct.last_error \in {ErrorMessage("rate"), ErrorMessage("network")}
  /\ acct.last_page_token # 0
  /\ acct.query_hash = CurrentQueryHash

\* C18: after a run ended with sync_status = error because of a rate-limit
\* or network error with a non-empty last_page_token, the next run started
\* on the account with the query unchanged skips counting and starts
\* fetching at the preserved last_page_token.
C18_NextRunContinues ==
  [][\A s \in SyncRunners :
       (/\ StoppedByTransientError
        /\ \A t \in SyncRunners \ {s} : ~SrLive(t)
        /\ ~sr[s].busyAtStart
        /\ sr[s].pc = "s_account" /\ sr'[s].pc # "s_account"
        /\ crashes' = crashes)
       => /\ sr'[s].pc = "s_fetch"
          /\ sr'[s].isResuming
          /\ sr'[s].pageToken = acct.last_page_token]_vars

\* C19: a token refresh failure raised inside a sync run is classified as
\* an authentication error: the run ends with sync_status = error, the
\* reconnect-required message in last_error and the resume fields cleared.
C19_RefreshFailureIsAuthError ==
  [][\A s \in SyncRunners :
       (sr[s].err = "refresh" /\ RunFails(s))
       => /\ acct'.sync_status = "error"
          /\ acct'.last_error = ErrorMessage("auth")
          /\ (\A t \in SyncRunners \ {s} : ~SrLive(t))
               => /\ acct'.last_page_token = 0
                  /\ acct'.last_processed_message_id = 0
                  /\ acct'.query_hash = NoHash]_vars

\* C20: the keyword and sender lists being unchanged (they are constants of
\* the build), the fingerprint a restart computes for its query equals the
\* query_hash the interrupted run stored, for an initial and for an
\* incremental run and whenever the restart happens.
C20_RestartFingerprintMatches ==
  [][\A s \in SyncRunners :
       (/\ sr[s].pc = "s_account" /\ sr'[s].pc # "s_account"
        /\ crashes' = crashes
        /\ sr[s].resume.canResume
        /\ ~sr[s].busyAtStart
        /\ sr'[s].err = NoStr)
       => sr'[s].hash = sr[s].resume.queryHash]_vars

\* The emails row with the given id.
RowOf(rows, id) == CHOOSE r \in rows : r.id = id

\* C21: when analysing a row throws, analysis_attempts of the row grows by
\* one; below 3 the row stays unprocessed for a later batch, and at 3 the
\* row is marked processed with ai_provider = error and is_subscription =
\* false.
C21_RowFailureBudget ==
  [][\A p \in ProcRunners :
       (/\ ProcRowThrows(p)
        /\ ~RowOf(emails, CurrentRow(p).id).processed
        /\ RowOf(emails, CurrentRow(p).id).analysis_attempts
             = CurrentRow(p).analysis_attempts)
       => LET before == RowOf(emails, CurrentRow(p).id)
              after == RowOf(emails', CurrentRow(p).id)
          IN /\ after.analysis_attempts = before.analysis_attempts + 1
             /\ after.analysis_attempts < MaxAnalysisRetries
                  => ~after.processed
             /\ after.analysis_attempts >= MaxAnalysisRetries
                  => /\ after.processed
                     /\ after.ai_provider = "error"
                     /\ ~after.is_subscription]_vars

\* The visit of p's current row fell back to the keyword result.
FellBack(p) ==
  LET row == CurrentRow(p)
      after == RowOf(emails', row.id)
  IN /\ after.processed
     /\ after.ai_provider = "keywords_fallback"
     /\ after.is_subscription = KeywordResult(row.msg).isSubscription
     /\ pr'[p].result.cost = 0
     /\ pr'[p].pc # "p_cost"
     /\ acct' = acct
     /\ lmCalls' = lmCalls

C22_FallbackStep(p) ==
  /\ ProcClaudeFails(p) => FellBack(p)
  /\ (/\ ProcAnalyzeRow(p)
      /\ ~aiEnabled
      /\ ~KeywordBelowThreshold(CurrentRow(p).msg)) => FellBack(p)
  /\ ~aiEnabled => \A msg \in 1..MaxMsgs : lmCalls'[msg] = 0

\* C22: for a row with keyword confidence at or above the threshold, when
\* the LM is disabled or the LM call fails the row is marked processed in
\* the same visit with the keyword result, ai_provider = keywords_fallback
\* and cost 0; with the LM disabled the LM is never called.
C22_LMFallback == [][\A p \in ProcRunners : C22_FallbackStep(p)]_vars

\* The LM is enabled and a row above the threshold was marked with the
\* keyword result after its LM call failed; its subscription comes next.
C22_Witness ==
  /\ aiEnabled /\ failures > 0
  /\ \E r \in emails :
       /\ ~KeywordBelowThreshold(r.msg)
       /\ r.processed /\ r.ai_provider = "keywords_fallback"
  /\ \E p \in ProcRunners : pr[p].pc = "p_sub"

Counters(a) ==
  <<a.emails_to_analyze, a.emails_analyzed, a.subscriptions_found,
    a.ai_cost_total>>

C23_ErrorStep(p) ==
  /\ \* the catch block of the run
     ProcErrorWrite(p)
       => acct'.processing_status = "error" /\ Counters(acct') = Counters(acct)
  /\ \* the resume decision of the next run
     (/\ ProcReadResume(p)
      /\ acct.processing_status = "error"
      /\ acct.emails_analyzed < acct.emails_to_analyze)
       => pr'[p].canResume /\ pr'[p].pc = "p_setanalyzing"
  /\ \* a resuming run does not pass the initialisation
     pr'[p].canResume => pr'[p].pc \notin {"p_count", "p_init"}
  /\ ProcSetAnalyzing(p)
       => /\ pr[p].canResume
          /\ acct'.processing_status = "analyzing"
          /\ Counters(acct') = Counters(acct)

\* C23: an uncaught error in a process run sets processing_status = error
\* and leaves emails_to_analyze, emails_analyzed, subscriptions_found and
\* ai_cost_total unchanged; the next run that finds processing_status =
\* error and emails_analyzed < emails_to_analyze resumes without re-zeroing
\* those counters.
C23_ErrorPreservesCounters == [][\A p \in ProcRunners : C23_ErrorStep(p)]_vars

\* A run resumed after an error, with the counters of the failed run.
C23_Witness ==
  \E p \in ProcRunners :
    /\ pr[p].canResume /\ pr[p].sawStatus = "error" /\ pr[p].pc = "p_batch"
    /\ acct.processing_status = "analyzing"
    /\ acct.emails_analyzed > 0
    /\ acct.emails_analyzed < acct.emails_to_analyze

\* Sync Runner s returns or throws: its run ends without a restart.
SyncRunEnds(s) == sr[s].pc # "idle" /\ sr'[s].pc = "idle" /\ crashes' = crashes

\* Sync Runner s writes the completed status.
SyncRunCompletes(s) ==
  /\ SyncRunEnds(s)
  /\ sr[s].pc = "s_complete2"
  /\ acct'.sync_status = "completed"

C24_ChainStep ==
  /\ \A s \in SyncRunners :
       /\ \* the completed status is written by a run that has cleared
          (sr'[s].pc = "s_complete2" /\ sr[s].pc # "s_complete2")
            => sr[s].pc = "s_complete1"
               /\ ResumeFields(acct') = ResumeFields(clearResumeData(acct))
       /\ SyncRunCompletes(s) => pendingProc' = pendingProc + 1
       /\ (SyncRunEnds(s) /\ ~SyncRunCompletes(s)) => pendingProc' = pendingProc
       /\ RunFails(s) => acct'.sync_status = "error"
  /\ \* nothing else writes the status or makes the call
     (acct.sync_status # "completed" /\ acct'.sync_status = "completed")
       => \E s \in SyncRunners : SyncRunCompletes(s)
  /\ pendingProc' > pendingProc => \E s \in SyncRunners : SyncRunCompletes(s)

\* C24: every sync run that reaches completed clears the resume fields
\* first and then triggers StartProcessing for the account exactly once; a
\* sync run that ends in error never triggers StartProcessing.
C24_SyncChainsOnce == [][C24_ChainStep]_vars

\* One run ended in error and one completed: one call is pending.
C24_Witness ==
  /\ acct.sync_status = "completed"
  /\ pendingProc = 1
  /\ failures > 0 /\ syncStarts = 2
  /\ \A s \in SyncRunners : sr[s].pc = "idle"

SyncErrorPcs == {"s_err_clear", "s_err_write"}

C25_SkipStep(s) ==
  /\ SyncSkipMessage(s)
       => /\ sr'[s].skippedCount = sr[s].skippedCount + 1
          /\ sr'[s].processedCount = sr[s].processedCount
          /\ sr'[s].page = sr[s].page /\ sr'[s].next = sr[s].next
          /\ sr'[s].idx = sr[s].idx + 1
          /\ sr'[s].pc = IF sr[s].idx < Len(sr[s].page) THEN "s_msg"
                         ELSE "s_save"
          /\ acct' = acct /\ emails' = emails
  /\ \* after the page, skipped messages or not, the next page or completion
     \* (unless the progress write's own ROLLBACK fails, C34)
     (/\ sr[s].pc = "s_save" /\ sr'[s] # sr[s] /\ crashes' = crashes
      /\ ~SyncSaveProgressRollbackFails(s))
       => sr'[s].pc = IF sr[s].next = 0 THEN "s_complete1" ELSE "s_fetch"
  /\ \* no message step takes the run to the catch block: only a listing
     \* call or the failed ROLLBACK of the progress write does
     (sr'[s].pc \in SyncErrorPcs /\ sr[s].pc \notin SyncErrorPcs)
       => \/ sr[s].pc \in {"s_count", "s_fetch"}
          \/ SyncSaveProgressRollbackFails(s)

\* C25: a per-message fetch or save failure never ends the sync run: the
\* run counts the message as skipped, continues with the remaining messages
\* and pages, and can still reach completed.
C25_SkipNeverEndsRun == [][\A s \in SyncRunners : C25_SkipStep(s)]_vars

\* A run that skipped every message of its first page is about to write
\* completed, having stored the message of the second page.
C25_Witness ==
  \E s \in SyncRunners :
    /\ sr[s].pc = "s_complete2"
    /\ sr[s].skippedCount = FetchPageSize
    /\ sr[s].processedCount > 0
    /\ \A r \in emails : r.msg > FetchPageSize

TokenColumns(a) == <<a.access_token_encrypted, a.token_expiry>>

C27_BrokerStep(g) ==
  LET call == broker.call[g]
      after == broker'.call[g]
      fresh == acct.token_expiry - broker.now >= ExpiryBuffer
  IN /\ GetAccessTokenRead(g)
          => /\ fresh <=> after.pc = "returned"
             /\ fresh => /\ after.returned = decrypt(acct.access_token_encrypted)
                         /\ ~after.contacted
                         /\ broker'.issued = broker.issued
             /\ ~fresh => after.pc = "r_read"
             /\ acct' = acct
     /\ RefreshFetch(g)
          => /\ after.tokens.access_token > broker.issued
             /\ after.expiresAt = broker.now + after.tokens.expires_in
             /\ acct' = acct
     /\ RefreshUpdate(g)
          => /\ call.contacted
             /\ decrypt(acct'.access_token_encrypted) = call.tokens.access_token
             /\ acct'.token_expiry = call.expiresAt
             /\ after.pc = "returned"
             /\ after.returned = call.tokens.access_token
     /\ RefreshFetchFails(g)
          => after.pc = "threw" /\ TokenColumns(acct') = TokenColumns(acct)
     /\ after.pc = "threw" => after.returned = 0

\* C27: getAccessToken returns the stored access token without contacting
\* the provider iff the stored expiry is at least 5 minutes after now;
\* otherwise it performs a refresh, persists the new access token together
\* with its new expiry and returns the new token; a failed refresh leaves
\* the stored token and expiry unchanged.
C27_TokenBroker ==
  [][/\ \A g \in TokenCallers : C27_BrokerStep(g)
     /\ TokenColumns(acct') # TokenColumns(acct)
          => \E g \in TokenCallers : RefreshUpdate(g)]_vars

\* After a refused refresh, one call has refreshed and another has returned
\* the stored token exactly 5 minutes before its expiry.
C27_Witness ==
  /\ broker.refused > 0
  /\ broker.call["g2"].pc = "returned" /\ broker.call["g2"].contacted
  /\ broker.call["g1"].pc = "returned" /\ ~broker.call["g1"].contacted
  /\ broker.call["g1"].returned = broker.call["g2"].returned
  /\ broker.call["g1"].returned = decrypt(acct.access_token_encrypted)
  /\ acct.token_expiry - broker.now = ExpiryBuffer

\* Process Runner p leaves through its catch block.
ProcRunFails(p) ==
  pr[p].pc = "p_error" /\ pr'[p].pc = "idle" /\ crashes' = crashes

C26_ContainStep ==
  /\ \A s \in SyncRunners :
       RunFails(s) => /\ sr[s].site \in {"route", "boot"}
                      /\ acct'.sync_status = "error"
                      /\ escaped' = escaped
  /\ \A p \in ProcRunners :
       ProcRunFails(p) => acct'.processing_status = "error"
                          /\ escaped' = escaped
  /\ RestartScanFails
       => /\ acct' = acct
          /\ \A s \in SyncRunners : ~SrLive(s)'
          /\ \A p \in ProcRunners : ~PrLive(p)'
          /\ escaped' = escaped
  /\ escaped' = 0

\* C26: an error inside a Sync or Process Runner never propagates to the
\* caller that started the run, and an error while scanning or restarting
\* accounts at boot never leaves resumeInterruptedTasks.
C26_FailuresContained == [][C26_ContainStep]_vars

\* A sync run restarted by the boot sequence has failed and written its
\* error; nothing reached the boot sequence.
C26_Witness ==
  /\ crashes = 1 /\ failures > 0 /\ syncStarts = 1
  /\ acct.sync_status = "error"
  /\ \A s \in SyncRunners : ~SrLive(s)
  /\ escaped = 0

\* The incremental run of WakeSpec has written completed.
SyncSucceeded ==
  /\ acct.sync_status = "completed"
  /\ \A s \in SyncRunners : ~SrLive(s)

Stored(msg) == \E r \in emails : r.msg = msg

StoredAndProcessed(msg) == \E r \in emails : r.msg = msg /\ r.processed

\* C28: after a sync run completes successfully, every Mail Row it persisted
\* is eventually processed, also when a Process Runner of the account is
\* running while the sync saves its rows and completes; no failures and no
\* further triggers.
C28_NoLostWakeUp ==
  \A msg \in 1..MaxMsgs :
    (SyncSucceeded /\ Stored(msg)) ~> StoredAndProcessed(msg)

\* What the LM bills for all rows when each is answered once.
RECURSIVE CostOnceUpTo(_)
CostOnceUpTo(n) ==
  IF n = 0 THEN 0 ELSE ClaudeCost[n] + CostOnceUpTo(n - 1)

\* C29: no double-charging: every Mail Row is answered by the LM in at most
\* one visit and its cost is added to ai_cost_total at most once, whatever
\* the batches, errors, restarts and overlapping Process Runners.
C29_NoDoubleCharging ==
  /\ \A msg \in 1..MaxMsgs : lmCalls[msg] <= 1
  /\ acct.ai_cost_total <= CostOnceUpTo(MaxMsgs)

\* What analyzeEmailHybrid extracted from the message of a row.
ExtractedData(r) ==
  IF r.ai_provider = "claude"
  THEN [serviceName |-> ClaudeResult(r.msg).service_name,
        amount |-> ClaudeResult(r.msg).amount]
  ELSE [serviceName |-> KeywordResult(r.msg).serviceName,
        amount |-> KeywordResult(r.msg).amount]

Materialised(r) ==
  \E x \in subs : /\ x.service_name = ExtractedData(r).serviceName
                  /\ x.amount = ExtractedData(r).amount

\* C30: whenever processing_status is completed, every processed Mail Row
\* with is_subscription = true and extracted service_name and amount has a
\* Subscription row with that (service_name, amount).
C30_SubscriptionsMaterialised ==
  acct.processing_status = "completed"
    => \A r \in emails :
         (/\ r.processed /\ r.is_subscription
          /\ ExtractedData(r).serviceName # ""
          /\ ExtractedData(r).amount # 0) => Materialised(r)

\* C31: last_sync advances only when a sync run reaches completed: the
\* initialising write, the count-phase write and the error write leave it
\* unchanged, so a retried incremental run filters by the same after: date.
C31_LastSyncOnlyAtCompletion ==
  [][(acct.is_initial_sync_complete /\ acct'.last_sync # acct.last_sync)
       => \E s \in SyncRunners : SyncRunCompletes(s)]_vars
\* C32: an LM answer that is no JSON even after the repair attempt counts as
\* a failure of the row: the step that handles it increments the row's
\* analysis_attempts and, below MaxAnalysisRetries attempts, leaves the row
\* unprocessed.
UnparsableAnswerStep(p) ==
  /\ ProcClaudeFails(p)
  /\ RowOf(emails', CurrentRow(p).id).ai_reasoning
       = "Failed to parse Claude response as JSON"

C32_UnparsableAnswerIsRowFailure ==
  [][\A p \in ProcRunners :
       UnparsableAnswerStep(p) =>
         LET before == RowOf(emails, CurrentRow(p).id)
             after == RowOf(emails', CurrentRow(p).id)
         IN /\ after.analysis_attempts = before.analysis_attempts + 1
            /\ (after.analysis_attempts < MaxAnalysisRetries
                  => ~after.processed)]_vars

\* C33: one LM request makes at most MaxRetries HTTP attempts; an attempt
\* that fails with 401 ends the request; a further attempt is made only
\* after a backoff sleep, which follows only a failure with 429, 500 or 503;
\* a failure of any other kind ends the request with that attempt.
AttemptFailsWith(e) ==
  /\ CallClaudeAPIFails
  /\ claude'.lastError = e
  /\ Len(claude'.errors) = Len(claude.errors) + 1

C33_RetryPolicy ==
  [][/\ claude'.attempt <= MaxRetries
     /\ Len(claude'.errors) <= MaxRetries
     /\ AttemptFailsWith("http401") => claude'.pc = "threw"
     /\ claude'.pc = "c_sleep" /\ claude.pc # "c_sleep"
          => \E e \in {"http429", "http500", "http503"} : AttemptFailsWith(e)
     /\ \A e \in ApiErrors \ {"http429", "http500", "http503"} :
          AttemptFailsWith(e) => claude'.pc = "threw"
     /\ (claude'.attempt > claude.attempt /\ claude.attempt > 0
           /\ claude'.requests = claude.requests)
          => claude.pc = "c_sleep"]_vars

\* C34: a failure of the per-page cursor write never ends the sync run:
\* whatever happens to saveProgressTransaction, the run goes on with the
\* next page (or, after the last page, with the completion), and a cursor
\* write that succeeds stores the cursor of its page.
C34_CursorSaveNeverFatal ==
  [][\A s \in SyncRunners :
       (sr[s].pc = "s_save" /\ sr'[s] # sr[s] /\ crashes' = crashes)
         => /\ sr'[s].pc \in {"s_fetch", "s_complete1"}
            /\ SyncSaveProgress(s) => acct'.last_page_token = sr[s].next]_vars

\* A visit of the batch loop to the row at hand.
Visits(p) ==
  /\ pr[p].pc = "p_row"
  /\ ProcAnalyzeRow(p) \/ ProcClaudeFails(p) \/ ProcRowThrows(p)

\* C35: with no rows added and no restart, every process run ends, with
\* processing_status completed or error, even when rows fail at every visit;
\* and the batch loop never visits a row that has been given up after its
\* third failed analysis.
C35_RunTerminates ==
  /\ \A p \in ProcRunners :
        PrLive(p) ~> (/\ ~PrLive(p)
                      /\ acct.processing_status \in {"completed", "error"})
  /\ [][\A p \in ProcRunners :
          Visits(p) => RowOf(emails, CurrentRow(p).id).ai_provider # "error"]_vars

\* No second runner has been active during the run of p: either the run
\* chained to the sync is the only one ever started, or p found the status
\* error, written by the run before it as its last step.
RanAlone(p) ==
  /\ crashes = 0
  /\ procStarts = 0 \/ pr[p].sawStatus = "error"

\* C36: when a Process Runner writes completed, with no Mail Rows added and
\* no other runner active since emails_to_analyze was initialised,
\* emails_analyzed equals emails_to_analyze, also after a throw that follows
\* the marking of a row and after an error status and a resume.
C36_CountersExactAtCompletion ==
  [][\A p \in ProcRunners :
       (ProcComplete(p) /\ RanAlone(p))
         => acct'.emails_analyzed = acct'.emails_to_analyze]_vars

AnalysisColumns(r) ==
  <<r.processed, r.is_subscription, r.subscription_confidence, r.ai_provider,
    r.analysis_attempts>>

\* C37: saving a message that already has a Mail Row leaves processed_at,
\* is_subscription, subscription_confidence, ai_provider and
\* analysis_attempts of every row as they were, and a batch never selects a
\* row that is processed.
C37_ResyncKeepsAnalysis ==
  [][/\ \A s \in SyncRunners :
          SyncSaveMessage(s) =>
            \A r \in emails :
              \E r2 \in emails' : /\ r2.id = r.id
                                  /\ AnalysisColumns(r2) = AnalysisColumns(r)
     /\ \A p \in ProcRunners :
          (ProcSelectBatch(p) /\ pr'[p].pc = "p_row") =>
            \A i \in 1..Len(pr'[p].batch) :
              ~RowOf(emails, pr'[p].batch[i].id).processed]_vars

\* A sync run has just saved again the message of a processed row, and no
\* Process Runner is at work.
C37_Witness ==
  \E s \in SyncRunners :
    /\ sr[s].pc \in {"s_msg", "s_save"}
    /\ sr[s].lastId # 0
    /\ \E r \in emails : r.msg = sr[s].lastId /\ r.processed
    /\ Cardinality({r \in emails : r.msg = sr[s].lastId}) = 1
    /\ \A p \in ProcRunners : ~PrLive(p)
    /\ acct.processing_status = "completed"

ProcessingColumns(a) ==
  <<a.processing_status, a.emails_to_analyze, a.emails_analyzed,
    a.subscriptions_found, a.processing_started_at>>

\* C38: a startEmailProcessing call that is no resume and counts zero
\* unprocessed Mail Rows ends there, and none of its steps, from the call to
\* the return, changes processing_status, emails_to_analyze, emails_analyzed,
\* subscriptions_found or processing_started_at.
C38_ZeroCountLeavesColumns ==
  [][\A p \in ProcRunners :
       /\ (StartProcessing(p) \/ ChainedProcessing(p) \/ ProcCheck(p)
             \/ ProcReadResume(p))
            => ProcessingColumns(acct') = ProcessingColumns(acct)
       /\ (ProcCount(p) /\ ~pr[p].canResume /\ Unprocessed = {})
            => /\ ~PrLive(p)'
               /\ ProcessingColumns(acct') = ProcessingColumns(acct)]_vars

\* POST /accounts/:id/process has been called on an account without
\* unprocessed rows and its run has ended (no restart, no run in progress):
\* the status is still idle.
C38_Witness ==
  /\ procStarts = 1
  /\ crashes = 0
  /\ pendingProc = 0
  /\ \A p \in ProcRunners : ~PrLive(p)
  /\ Unprocessed = {}
  /\ acct.processing_status = "idle"

HasSubscriptionData(d) == d.serviceName # "" /\ d.amount # 0

\* The iteration of the batch loop over the row at hand ends after the
\* runner has marked the row.
IterationEndsAfterMark(p) ==
  /\ pr[p].pc \in {"p_cost", "p_sub"}
  /\ crashes' = crashes
  /\ pr'[p].pc = "p_remaining" \/ pr'[p].idx > pr[p].idx

\* C39: createSubscriptionFromEmail is called only with a result that has
\* is_subscription = true and comes from neither the keyword rejection nor
\* the error path; its INSERT is attempted iff the result has a service_name
\* and an amount, whatever the confidence; and the iteration over a row that
\* the runner has marked, and leaves, processed with is_subscription = true,
\* a service_name and an amount ends with that attempt.
C39_InsertIffSubscriptionData ==
  [][\A p \in ProcRunners :
       /\ ProcCreateSubscription(p) =>
            /\ pr[p].result.isSubscription
            /\ pr[p].result.provider \notin {"keywords", "error"}
            /\ subs' # subs => HasSubscriptionData(pr[p].result)
            /\ (/\ HasSubscriptionData(pr[p].result)
                /\ ~\E x \in subs :
                      /\ x.service_name = pr[p].result.serviceName
                      /\ x.amount = pr[p].result.amount) => subs' # subs
       /\ (/\ ProcAnalyzeRow(p) \/ ProcClaudeFails(p)
           /\ pr'[p].result.isSubscription)
            => pr'[p].pc \in {"p_cost", "p_sub"}
       /\ (/\ IterationEndsAfterMark(p)
           /\ pr[p].result.isSubscription
           /\ HasSubscriptionData(pr[p].result)
           /\ RowOf(emails', CurrentRow(p).id).is_subscription)
            => ProcCreateSubscription(p)]_vars

\* C40: every Mail Row with processed_at set has ai_provider among keywords,
\* keywords_fallback, claude and error, and subscription_confidence between
\* 0 and 1 (in hundredths); a row with ai_provider = error has
\* is_subscription = false and confidence 0.
C40_ProcessedRowsWellFormed ==
  \A r \in emails :
    r.processed =>
      /\ r.ai_provider \in {"keywords", "keywords_fallback", "claude", "error"}
      /\ r.subscription_confidence \in 0..100
      /\ r.ai_provider = "error"
           => ~r.is_subscription /\ r.subscription_confidence = 0

\* A row given up after three failures next to rows resolved by the LM and
\* by the keyword rejection.
C40_Witness ==
  /\ \E r \in emails : r.processed /\ r.ai_provider = "error"
  /\ \E r \in emails : r.processed /\ r.ai_provider = "claude"
                        /\ r.subscription_confidence = 95
  /\ \E r \in emails : r.processed /\ r.ai_provider = "keywords"
                        /\ r.subscription_confidence = 15

====
